---- MODULE Spec2Model ----
(***************************************************************************)
(* Model of the momentum-to-strategy pipeline of the multi-chain momentum  *)
(* surfer: the request handlers under src/app/api/tools.                    *)
(*                                                                         *)
(* One request is handled at a time.  pc is the handler's position: idle,  *)
(* suspended on the market-data fetch ("fetch"), suspended on the          *)
(* secondary Binance fetch ("binance"), or "done" with a response.         *)
(*                                                                         *)
(* Numbers are fixed point:                                                *)
(*   percent changes and thresholds   hundredths of a percent (500 = 5%)   *)
(*   volumes and market caps          millions of USD                      *)
(*   unrounded scores                 thousandths of a score point         *)
(*   rounded scores (one decimal)     tenths of a score point              *)
(*   price factors                    1e-4 (10000 = 1.0)                   *)
(*   prices                           1e-4 USD (base price in whole USD)   *)
(* JSON values that may be null or missing are tagged records.             *)
(*                                                                         *)
(* upstream is what the data providers would answer: markets is the body   *)
(* of the markets endpoint (scan), market_data that of the coin endpoint   *)
(* (analyze), tokenData that of the simple-price endpoint and ticker that  *)
(* of the Binance ticker (price).  A specification of one operation keeps  *)
(* only the fields that operation reads.                                   *)
(*                                                                         *)
(* analyzed is a history variable: the inputs and results of analyze       *)
(* requests that were answered earlier.  No handler reads it.              *)
(*                                                                         *)
(* pc, args, rand, fetches and resp are the locals of the request whose    *)
(* handler the event loop runs or has last run.  suspended holds the       *)
(* locals of the other requests in flight, each waiting on its fetch;      *)
(* given is a history variable: the parameters of the running request as   *)
(* they were when it was resumed (no parameters when it never waited       *)
(* behind another request).                                                *)
(***************************************************************************)
EXTENDS Integers, Sequences, FiniteSets, TLC

VARIABLES pc, args, upstream, rand, fetches, resp, analyzed, suspended, given

vars == <<pc, args, upstream, rand, fetches, resp, analyzed, suspended, given>>

----------------------------------------------------------------------------
(* JavaScript values and arithmetic helpers *)

Num(x) == [tag |-> "number", val |-> x]
Null == [tag |-> "null", val |-> 0]
Undefined == [tag |-> "undefined", val |-> 0]

IsNum(v) == v.tag = "number"

\* `v || 0` on a number, null or undefined
OrZero(v) == IF IsNum(v) THEN v.val ELSE 0

Abs(x) == IF x < 0 THEN -x ELSE x

Min(a, b) == IF a <= b THEN a ELSE b

\* Math.round(n / d) for d > 0: halves round towards +infinity
RoundDiv(n, d) == (2 * n + d) \div (2 * d)

ToUpperCase(s) ==
  CASE s = "btc" -> "BTC"
    [] s = "eth" -> "ETH"
    [] s = "sol" -> "SOL"
    [] s = "link" -> "LINK"
    [] s = "doge" -> "DOGE"
    [] OTHER -> s

NoArgs == [op |-> "none"]

\* The outbound fetches of the current invocation, in issue order, each with
\* its outcome: pending, ok, failed (rejected or non-success status) or
\* invalid_body (success status, body.json() rejects).
Issue(to) == Append(fetches, [to |-> to, result |-> "pending"])
Settle(result) == [fetches EXCEPT ![Len(fetches)].result = result]
NoResp == [status |-> 0]

----------------------------------------------------------------------------
(* detect-momentum: scan *)

DefaultThreshold == 500
TopN == 10

ScanTimeframes == {"1h", "24h", "7d", "4h"}

\* timeframeMappings[timeframe] || "price_change_percentage_24h_in_currency"
changeField(timeframe) ==
  CASE timeframe = "1h" -> "price_change_percentage_1h_in_currency"
    [] timeframe = "24h" -> "price_change_percentage_24h_in_currency"
    [] timeframe = "7d" -> "price_change_percentage_7d_in_currency"
    [] OTHER -> "price_change_percentage_24h_in_currency"

\* coin[changeField]
CoinChange(coin, timeframe) == coin[changeField(timeframe)]

getAvailableChains(symbol) ==
  CASE symbol = "BTC" -> <<"Bitcoin", "Ethereum (wBTC)", "BSC (BTCB)", "Solana (Portal BTC)">>
    [] symbol = "ETH" -> <<"Ethereum", "BSC (ETH)", "Polygon (ETH)", "Arbitrum (ETH)", "Optimism (ETH)">>
    [] symbol = "SOL" -> <<"Solana", "Ethereum (Wrapped SOL)", "BSC (SOL)">>
    [] symbol = "MATIC" -> <<"Polygon", "Ethereum (MATIC)", "BSC (MATIC)">>
    [] symbol = "AVAX" -> <<"Avalanche", "Ethereum (AVAX)", "BSC (AVAX)">>
    [] symbol = "BNB" -> <<"BSC", "Ethereum (BNB)">>
    [] symbol = "ADA" -> <<"Cardano", "Ethereum (ADA)", "BSC (ADA)">>
    [] symbol = "DOT" -> <<"Polkadot", "Ethereum (DOT)", "BSC (DOT)">>
    [] OTHER -> <<"Ethereum", "BSC">>

\* The unrounded score, in thousandths.
RawMomentumScore(coin) ==
  LET change24h == OrZero(coin.price_change_percentage_24h)
      change1h == OrZero(coin.price_change_percentage_1h_in_currency)
      volume == OrZero(coin.total_volume)
      marketCap == OrZero(coin.market_cap)
  IN  Abs(change24h) * 20 + Abs(change1h) * 30
        + Min(volume * 10, 20000) + Min(marketCap * 2, 10000)

\* A scorer that forgets Math.abs on the 24h change.
SignedMomentumScore(coin) ==
  LET change24h == OrZero(coin.price_change_percentage_24h)
      change1h == OrZero(coin.price_change_percentage_1h_in_currency)
      volume == OrZero(coin.total_volume)
      marketCap == OrZero(coin.market_cap)
  IN  RoundDiv(change24h * 20 + Abs(change1h) * 30
        + Min(volume * 10, 20000) + Min(marketCap * 2, 10000), 100)

\* Math.round(score * 10) / 10, in tenths.
calculateMomentumScore(coin) == RoundDiv(RawMomentumScore(coin), 100)

\* A ladder whose thresholds are inclusive.
determineTrendInclusive(changePercent) ==
  IF ~IsNum(changePercent) THEN "neutral"
  ELSE LET c == changePercent.val
       IN  IF c >= 1500 THEN "very_bullish"
           ELSE IF c >= 800 THEN "strong_bullish"
           ELSE IF c >= 300 THEN "bullish"
           ELSE IF c >= -300 THEN "neutral"
           ELSE IF c >= -800 THEN "bearish"
           ELSE IF c >= -1500 THEN "strong_bearish"
           ELSE "very_bearish"

\* The seven-bucket ladder of detect-momentum; changePercent is a tagged value.
determineTrend(changePercent) ==
  IF ~IsNum(changePercent) THEN "neutral"
  ELSE LET c == changePercent.val
       IN  IF c > 1500 THEN "very_bullish"
           ELSE IF c > 800 THEN "strong_bullish"
           ELSE IF c > 300 THEN "bullish"
           ELSE IF c > -300 THEN "neutral"
           ELSE IF c > -800 THEN "bearish"
           ELSE IF c > -1500 THEN "strong_bearish"
           ELSE "very_bearish"

\* A filter that treats null as zero change instead of rejecting it.
ScanFilterNullAsZero(coin, threshold, timeframe) ==
  LET change == CoinChange(coin, timeframe)
  IN  change.tag # "undefined" /\ Abs(OrZero(change)) >= threshold

\* change !== null && Math.abs(change) >= threshold  (Math.abs(undefined) is NaN)
ScanFilter(coin, threshold, timeframe) ==
  LET change == CoinChange(coin, timeframe)
  IN  change.tag # "null" /\ IsNum(change) /\ Abs(change.val) >= threshold

ScanMap(coin, timeframe) ==
  [ token |-> ToUpperCase(coin.symbol),
    change24h |-> OrZero(coin.price_change_percentage_24h),
    change1h |-> OrZero(coin.price_change_percentage_1h_in_currency),
    change7d |-> OrZero(coin.price_change_percentage_7d_in_currency),
    volume24h |-> coin.total_volume,
    marketCap |-> coin.market_cap,
    chains |-> getAvailableChains(ToUpperCase(coin.symbol)),
    momentumScore |-> calculateMomentumScore(coin),
    trend |-> determineTrend(CoinChange(coin, timeframe)) ]

RECURSIVE FilterMap(_, _, _)
FilterMap(marketData, threshold, timeframe) ==
  IF marketData = <<>> THEN <<>>
  ELSE LET rest == FilterMap(Tail(marketData), threshold, timeframe)
       IN  IF ScanFilter(Head(marketData), threshold, timeframe)
           THEN <<ScanMap(Head(marketData), timeframe)>> \o rest
           ELSE rest

\* An insertion that puts x in front of the entries of equal score.
RECURSIVE SortInsertBeforeEqual(_, _)
SortInsertBeforeEqual(sorted, x) ==
  IF sorted = <<>> THEN <<x>>
  ELSE IF Head(sorted).momentumScore > x.momentumScore
       THEN <<Head(sorted)>> \o SortInsertBeforeEqual(Tail(sorted), x)
       ELSE <<x>> \o sorted

\* One step of the stable sort with comparator b.momentumScore - a.momentumScore:
\* x goes behind every entry whose score is >= its own.
RECURSIVE SortInsert(_, _)
SortInsert(sorted, x) ==
  IF sorted = <<>> THEN <<x>>
  ELSE IF Head(sorted).momentumScore >= x.momentumScore
       THEN <<Head(sorted)>> \o SortInsert(Tail(sorted), x)
       ELSE <<x>> \o sorted

\* Array.prototype.sort((a, b) => b.momentumScore - a.momentumScore), stable
RECURSIVE SortByScore(_)
SortByScore(s) ==
  IF s = <<>> THEN <<>>
  ELSE SortInsert(SortByScore(SubSeq(s, 1, Len(s) - 1)), s[Len(s)])

\* A slice that keeps one entry too many.
SliceOffByOne(s, n) == SubSeq(s, 1, Min(Len(s), n + 1))

\* s.slice(0, n)
Slice(s, n) == SubSeq(s, 1, Min(Len(s), n))

\* parseFloat(searchParams.get("threshold") || "5")
ParseThreshold(raw) == IF IsNum(raw) THEN raw.val ELSE DefaultThreshold

ScanResponse(marketData, a) ==
  LET threshold == ParseThreshold(a.threshold)
      tokensWithMomentum == SortByScore(FilterMap(marketData, threshold, a.timeframe))
  IN  [ status |-> 200,
        body |-> [ threshold |-> threshold,
                   timeframe |-> a.timeframe,
                   momentumDetected |-> Len(tokensWithMomentum) > 0,
                   tokens |-> Slice(tokensWithMomentum, TopN),
                   summary |-> [ found |-> Len(tokensWithMomentum),
                                 threshold |-> threshold,
                                 timeframe |-> a.timeframe ] ] ]

ScanThresholds == {Undefined, Num(0), Num(650)}

ScanStart(threshold, timeframe) ==
  /\ pc = "idle"
  /\ pc' = "fetch"
  /\ args' = [op |-> "scan", threshold |-> threshold, timeframe |-> timeframe]
  /\ fetches' = Issue("coingecko")
  /\ UNCHANGED <<upstream, rand, resp, analyzed, suspended, given>>

\* A handler that tries the fetch a second time before giving up.
ScanFetchRetry ==
  /\ pc = "fetch" /\ args.op = "scan"
  /\ IF Len(fetches) < 2
     THEN /\ pc' = "fetch"
          /\ fetches' = Append(Settle("failed"), [to |-> "coingecko", result |-> "pending"])
          /\ UNCHANGED resp
     ELSE /\ pc' = "done"
          /\ resp' = [status |-> 503,
                      body |-> [error |-> "Failed to fetch live market data. Please try again later.",
                                fallback |-> "Using backup data source..."]]
          /\ fetches' = Settle("failed")
  /\ UNCHANGED <<args, upstream, rand, analyzed, suspended, given>>

\* fetch rejects, or response.ok is false
ScanFetchFail ==
  /\ pc = "fetch" /\ args.op = "scan"
  /\ pc' = "done"
  /\ resp' = [status |-> 503,
              body |-> [error |-> "Failed to fetch live market data. Please try again later.",
                        fallback |-> "Using backup data source..."]]
  /\ fetches' = Settle("failed")
  /\ UNCHANGED <<args, upstream, rand, analyzed, suspended, given>>

\* A handler whose body read is outside every guard: the fault escapes and
\* no response is built.
ScanBodyInvalidUncaught ==
  /\ pc = "fetch" /\ args.op = "scan"
  /\ pc' = "done"
  /\ resp' = NoResp
  /\ fetches' = Settle("invalid_body")
  /\ UNCHANGED <<args, upstream, rand, analyzed, suspended, given>>

\* response.ok, but response.json() rejects or the body is not a list
ScanBodyInvalid ==
  /\ pc = "fetch" /\ args.op = "scan"
  /\ pc' = "done"
  /\ resp' = [status |-> 500,
              body |-> [error |-> "Failed to detect momentum with live data",
                        details |-> "Unknown error"]]
  /\ fetches' = Settle("invalid_body")
  /\ UNCHANGED <<args, upstream, rand, analyzed, suspended, given>>

ScanFetchOk ==
  /\ pc = "fetch" /\ args.op = "scan"
  /\ pc' = "done"
  /\ resp' = ScanResponse(upstream.markets, args)
  /\ fetches' = Settle("ok")
  /\ UNCHANGED <<args, upstream, rand, analyzed, suspended, given>>

\* How many answered analyze requests the history keeps.
MaxRemembered == 1

\* The inputs of an analyze request as the handler reads them, and the part
\* of its answer that is computed from the market data.
Remembered(a, r) ==
  [ token |-> ToUpperCase(IF a.token = "" THEN "BTC" ELSE a.token),
    timeframes |-> IF a.timeframes.tag = "undefined"
                   THEN <<"1h", "4h", "24h">> ELSE a.timeframes.val,
    result |-> [ momentumScore |-> r.body.momentumScore,
                 status |-> r.body.status,
                 recommendation |-> r.body.recommendation,
                 riskLevel |-> r.body.riskLevel,
                 timeframes |-> r.body.timeframes,
                 technicals |-> r.body.technicals ] ]

\* The next request starts from a fresh handler invocation; nothing of the
\* answered one is kept but its entry in the history.
NextRequest ==
  /\ pc = "done"
  /\ pc' = "idle"
  /\ args' = NoArgs
  /\ rand' = <<>>
  /\ fetches' = <<>>
  /\ resp' = NoResp
  /\ analyzed' = IF /\ args.op = "analyze"
                    /\ resp.status = 200
                    /\ Cardinality(analyzed) < MaxRemembered
                 THEN analyzed \cup {Remembered(args, resp)}
                 ELSE analyzed
  /\ given' = NoArgs
  /\ UNCHANGED <<upstream, suspended>>

NextScan ==
  \/ \E threshold \in ScanThresholds, timeframe \in ScanTimeframes :
       ScanStart(threshold, timeframe)
  \/ ScanFetchFail
  \/ ScanBodyInvalid
  \/ ScanFetchOk
  \/ NextRequest

\* Market snapshots: coins the markets endpoint can list.
MaxCoins == 3

Coins ==
  { c \in [ symbol : {"btc", "doge"},
            price_change_percentage_24h : {Null, Num(200), Num(-700)},
            price_change_percentage_24h_in_currency : {Null, Num(200), Num(-700)},
            price_change_percentage_1h_in_currency : {Num(-100)},
            price_change_percentage_7d_in_currency : {Undefined, Num(900)},
            total_volume : {Num(1500)},
            market_cap : {Num(3000)} ] :
      c.price_change_percentage_24h = c.price_change_percentage_24h_in_currency }

SeqsUpTo(S, n) == UNION { [1..k -> S] : k \in 0..n }

InitRequest ==
  /\ pc = "idle"
  /\ args = NoArgs
  /\ rand = <<>>
  /\ fetches = <<>>
  /\ resp = NoResp
  /\ analyzed = {}
  /\ suspended = <<>>
  /\ given = NoArgs

InitScan ==
  /\ InitRequest
  /\ upstream \in { [markets |-> m] : m \in SeqsUpTo(Coins, MaxCoins) }

SpecScan == InitScan /\ [][NextScan]_vars

\* Large snapshots of two kinds of coin, for the truncation to the top ten.
MaxTopCoins == 11

TopCoins ==
  { c \in [ symbol : {"sol"},
            price_change_percentage_24h : {Num(200), Num(-700)},
            price_change_percentage_24h_in_currency : {Num(200), Num(-700)},
            price_change_percentage_1h_in_currency : {Num(-100)},
            price_change_percentage_7d_in_currency : {Num(900)},
            total_volume : {Num(1500)},
            market_cap : {Num(3000)} ] :
      c.price_change_percentage_24h = c.price_change_percentage_24h_in_currency }

InitTop ==
  /\ InitRequest
  /\ upstream \in { [markets |-> m] : m \in SeqsUpTo(TopCoins, MaxTopCoins) }

SpecTop == InitTop /\ [][NextScan]_vars

----------------------------------------------------------------------------
(* Properties of scan *)

ScanSucceeded == pc = "done" /\ args.op = "scan" /\ resp.status = 200

\* The scan filter as the interface states it: the change of the selected
\* timeframe is a number and its absolute value reaches the threshold.
PassesScan(coin, threshold, timeframe) ==
  LET change ==
        CASE timeframe = "1h" -> coin.price_change_percentage_1h_in_currency
          [] timeframe = "7d" -> coin.price_change_percentage_7d_in_currency
          [] OTHER -> coin.price_change_percentage_24h_in_currency
  IN  change.tag = "number" /\ Abs(change.val) >= threshold

RetainedPositions ==
  { i \in DOMAIN upstream.markets :
      PassesScan(upstream.markets[i], resp.body.threshold, resp.body.timeframe) }

\* The ways of reading the returned tokens as coins of the snapshot: token i is
\* the coin at input position p[i], no coin is used twice.
TokenSources ==
  { p \in [DOMAIN resp.body.tokens -> DOMAIN upstream.markets] :
      /\ \A i, j \in DOMAIN p : i # j => p[i] # p[j]
      /\ \A i \in DOMAIN p :
           resp.body.tokens[i] = ScanMap(upstream.markets[p[i]], resp.body.timeframe) }

\* C1: the tokens returned by scan are sorted by momentumScore descending, and
\* tokens of equal score keep the relative order they have in the snapshot.
C1_SortedStable ==
  ScanSucceeded =>
    LET tokens == resp.body.tokens
    IN  /\ \A i \in 1..(Len(tokens) - 1) :
             tokens[i].momentumScore >= tokens[i + 1].momentumScore
        /\ \E p \in TokenSources :
             \A i, j \in DOMAIN tokens :
               (i < j /\ tokens[i].momentumScore = tokens[j].momentumScore)
                 => p[i] < p[j]

\* A scan that returned two different tokens of equal score behind a token of
\* higher score that came later in the snapshot.
C1_Witness ==
  /\ ScanSucceeded
  /\ Len(resp.body.tokens) = 3
  /\ resp.body.tokens[1].momentumScore > resp.body.tokens[2].momentumScore
  /\ resp.body.tokens[2].momentumScore = resp.body.tokens[3].momentumScore
  /\ resp.body.tokens[2] # resp.body.tokens[3]
  /\ resp.body.tokens[1] = ScanMap(upstream.markets[3], resp.body.timeframe)

\* C2: scan retains a token if and only if its change for the selected
\* timeframe (1h, 24h or 7d) is non-null and at least the threshold in absolute
\* value: the returned tokens are exactly the retained coins of the snapshot and
\* the count found is their number.
C2_RetainedExactly ==
  (ScanSucceeded /\ resp.body.timeframe \in {"1h", "24h", "7d"}
     /\ Cardinality(RetainedPositions) <= TopN) =>
    /\ resp.body.summary.found = Cardinality(RetainedPositions)
    /\ \E p \in TokenSources :
         { p[i] : i \in DOMAIN p } = RetainedPositions

\* A scan over a snapshot holding a coin that passes, a coin whose change is
\* null and a coin whose change is below the threshold.
C2_Witness ==
  /\ ScanSucceeded
  /\ resp.body.timeframe = "24h"
  /\ Len(upstream.markets) = 3
  /\ Cardinality(RetainedPositions) = 1
  /\ \E i \in DOMAIN upstream.markets : upstream.markets[i].price_change_percentage_24h_in_currency = Null
  /\ \E i \in DOMAIN upstream.markets :
       /\ IsNum(upstream.markets[i].price_change_percentage_24h_in_currency)
       /\ i \notin RetainedPositions

CountAbove(scores, v) == Cardinality({ i \in DOMAIN scores : scores[i] > v })

\* C3: with k coins passing the filter, scan returns min(k, 10) tokens, the
\* highest-scoring ones, momentumDetected is true iff k > 0, and the summary
\* reports k.
C3_TopTen ==
  ScanSucceeded =>
    LET k == Cardinality(RetainedPositions)
        tokenScores == [ i \in DOMAIN resp.body.tokens |->
                           resp.body.tokens[i].momentumScore ]
        coinScores == [ i \in DOMAIN upstream.markets |->
                          IF i \in RetainedPositions
                          THEN calculateMomentumScore(upstream.markets[i]) ELSE -1 ]
    IN  /\ Len(resp.body.tokens) = Min(k, TopN)
        /\ resp.body.momentumDetected = (k > 0)
        /\ resp.body.summary.found = k
        /\ \A i \in DOMAIN coinScores :
             CountAbove(tokenScores, coinScores[i])
               = Min(TopN, CountAbove(coinScores, coinScores[i]))

\* A scan that retained eleven coins of two different scores and dropped one
\* of the lower score.
C3_Witness ==
  /\ ScanSucceeded
  /\ Cardinality(RetainedPositions) = TopN + 1
  /\ Len(resp.body.tokens) = TopN
  /\ resp.body.summary.found = TopN + 1
  /\ resp.body.tokens[1].momentumScore > resp.body.tokens[TopN].momentumScore

\* 24h changes to compare a coin's own change against.
AltChanges == {-705, -700, -204, -200, 0, 4, 5, 196, 200, 204, 700, 1600}

\* C4: two snapshots of a token that differ only in the 24h change, with
\* |c1| <= |c2|, score s1 <= s2 after the rounding to one decimal.
C4_ScoreMonotone ==
  /\ \A i \in DOMAIN upstream.markets : \A c2 \in AltChanges :
       LET coin == upstream.markets[i]
           c1 == coin.price_change_percentage_24h
           other == [coin EXCEPT !.price_change_percentage_24h = Num(c2)]
       IN  (pc = "done" /\ args.op = "scan" /\ IsNum(c1) /\ Abs(c1.val) <= Abs(c2))
             => calculateMomentumScore(coin) <= calculateMomentumScore(other)
  /\ ScanSucceeded =>
       \A i, j \in DOMAIN resp.body.tokens :
         LET a == resp.body.tokens[i]
             b == resp.body.tokens[j]
         IN  ( /\ a.change1h = b.change1h
               /\ a.volume24h = b.volume24h
               /\ a.marketCap = b.marketCap
               /\ Abs(a.change24h) <= Abs(b.change24h) )
               => a.momentumScore <= b.momentumScore

\* A scan that returned two tokens differing only in the 24h change, the one
\* with the smaller positive change scoring strictly less than the one with the
\* larger negative change.
C4_Witness ==
  /\ ScanSucceeded
  /\ \E i, j \in DOMAIN resp.body.tokens :
       LET a == resp.body.tokens[i]
           b == resp.body.tokens[j]
       IN  /\ a.change1h = b.change1h
           /\ a.volume24h = b.volume24h
           /\ a.marketCap = b.marketCap
           /\ a.change24h > 0 /\ b.change24h < 0
           /\ Abs(a.change24h) < Abs(b.change24h)
           /\ a.momentumScore < b.momentumScore

----------------------------------------------------------------------------
(* analyze-momentum: analyze *)

\* searchParams.get("token") || "BTC"
TokenParam(raw) == IF raw = "" THEN "BTC" ELSE raw

DefaultTimeframes == <<"1h", "4h", "24h">>

\* searchParams.get("timeframes")?.split(",") || ["1h", "4h", "24h"]
TimeframesParam(raw) == IF raw.tag = "undefined" THEN DefaultTimeframes ELSE raw.val

Includes(list, x) == \E i \in DOMAIN list : list[i] = x

\* A lookup that finds an id for every symbol.
getTokenIdPermissive(symbol) == "bitcoin"

\* tokenMapping[symbol] || null
getTokenId(symbol) ==
  CASE symbol = "BTC" -> "bitcoin"
    [] symbol = "ETH" -> "ethereum"
    [] symbol = "SOL" -> "solana"
    [] symbol = "MATIC" -> "matic-network"
    [] symbol = "AVAX" -> "avalanche-2"
    [] symbol = "BNB" -> "binancecoin"
    [] symbol = "ADA" -> "cardano"
    [] symbol = "DOT" -> "polkadot"
    [] symbol = "LINK" -> "chainlink"
    [] symbol = "UNI" -> "uniswap"
    [] OTHER -> "null"

\* The seven-bucket ladder of analyze-momentum; changePercent is a tagged value.
determineTrendAnalyze(changePercent) ==
  IF ~IsNum(changePercent) THEN "neutral"
  ELSE LET c == changePercent.val
       IN  IF c > 1500 THEN "very_bullish"
           ELSE IF c > 800 THEN "strong_bullish"
           ELSE IF c > 300 THEN "bullish"
           ELSE IF c > -300 THEN "neutral"
           ELSE IF c > -800 THEN "bearish"
           ELSE IF c > -1500 THEN "strong_bearish"
           ELSE "very_bearish"

RSIPeriod == 14

RECURSIVE SumSeq(_)
SumSeq(s) == IF s = <<>> THEN 0 ELSE Head(s) + SumSeq(Tail(s))

\* s.slice(-n)
SliceLast(s, n) == SubSeq(s, Len(s) - Min(Len(s), n) + 1, Len(s))

\* An oscillator that averages over the whole history instead of the last 14 deltas.
calculateRSIWholeHistory(prices) ==
  IF prices.tag = "undefined" \/ Len(prices.val) < RSIPeriod THEN 50
  ELSE LET p == prices.val
           gains == [ i \in 1..(Len(p) - 1) |->
                        IF p[i + 1] - p[i] > 0 THEN p[i + 1] - p[i] ELSE 0 ]
           losses == [ i \in 1..(Len(p) - 1) |->
                         IF p[i + 1] - p[i] < 0 THEN Abs(p[i + 1] - p[i]) ELSE 0 ]
           sumGain == SumSeq(gains)
           sumLoss == SumSeq(losses)
       IN  IF sumLoss = 0 THEN 100
           ELSE RoundDiv(100 * sumGain, sumGain + sumLoss)

\* prices is the tagged sparkline: undefined, or a list of prices.  With
\* avgGain = sumGain / 14 and avgLoss = sumLoss / 14 the value
\* 100 - 100 / (1 + avgGain / avgLoss) is 100 * sumGain / (sumGain + sumLoss).
calculateRSI(prices) ==
  IF prices.tag = "undefined" \/ Len(prices.val) < RSIPeriod THEN 50
  ELSE LET p == prices.val
           gains == [ i \in 1..(Len(p) - 1) |->
                        IF p[i + 1] - p[i] > 0 THEN p[i + 1] - p[i] ELSE 0 ]
           losses == [ i \in 1..(Len(p) - 1) |->
                         IF p[i + 1] - p[i] < 0 THEN Abs(p[i + 1] - p[i]) ELSE 0 ]
           sumGain == SumSeq(SliceLast(gains, RSIPeriod))
           sumLoss == SumSeq(SliceLast(losses, RSIPeriod))
       IN  IF sumLoss = 0 THEN 100
           ELSE RoundDiv(100 * sumGain, sumGain + sumLoss)

analyzeVolumeProfile(marketData) ==
  LET currentVolume == OrZero(marketData.total_volume)
      marketCap == OrZero(marketData.market_cap)
  IN  IF marketCap = 0 THEN "unknown"
      ELSE IF 2 * currentVolume > marketCap THEN "exploding"
      ELSE IF 5 * currentVolume > marketCap THEN "increasing"
      ELSE IF 20 * currentVolume > marketCap THEN "normal"
      ELSE "decreasing"

analyzeCrossChainFlow(marketData) ==
  LET change24h == OrZero(marketData.price_change_percentage_24h_in_currency)
      volume == OrZero(marketData.total_volume)
  IN  IF change24h > 500 /\ volume > 1000 THEN "very_positive"
      ELSE IF change24h > 200 /\ volume > 500 THEN "positive"
      ELSE IF change24h > -200 /\ volume > 100 THEN "neutral"
      ELSE IF change24h < -500 THEN "negative"
      ELSE "neutral"

\* In units of 1e-5; the volume-to-cap term is truncated to that unit.
calculateSocialSentiment(marketData) ==
  LET change24h == OrZero(marketData.price_change_percentage_24h_in_currency)
      volume == OrZero(marketData.total_volume)
      marketCap == OrZero(marketData.market_cap)
      base == 50000 + 3 * change24h
      sentiment == IF marketCap > 0
                   THEN base + Min((volume * 20000) \div marketCap, 20000)
                   ELSE base
  IN  IF sentiment < 0 THEN 0 ELSE Min(100000, sentiment)

\* The guard of a timeframe entry: timeframes.includes(t) && <change>?.usd !== null
\* (a missing field reads as undefined, which is not null).
HasEntry(timeframes, t, change) == Includes(timeframes, t) /\ change.tag # "null"

TimeframeEntry(marketData, change) ==
  [ change |-> OrZero(change),
    volume |-> OrZero(marketData.total_volume),
    trend |-> determineTrendAnalyze(Num(OrZero(change))) ]

AnalyzedTimeframes == {"1h", "24h", "7d"}

SourceChange(marketData, t) ==
  CASE t = "1h" -> marketData.price_change_percentage_1h_in_currency
    [] t = "24h" -> marketData.price_change_percentage_24h_in_currency
    [] t = "7d" -> marketData.price_change_percentage_7d_in_currency

timeframeAnalysis(marketData, timeframes) ==
  [ t \in { u \in AnalyzedTimeframes : HasEntry(timeframes, u, SourceChange(marketData, u)) }
      |-> TimeframeEntry(marketData, SourceChange(marketData, t)) ]

\* A contribution that keeps the sign of the change.
ContributionSigned(data) ==
  Min(data.change * 100, 50000) + Min(data.volume * 5, 25000)

\* Per-timeframe contribution, in thousandths.
Contribution(data) ==
  Min(Abs(data.change) * 100, 50000) + Min(data.volume * 5, 25000)

RECURSIVE SumOver(_, _)
SumOver(f, keys) ==
  IF keys = {} THEN 0
  ELSE LET k == CHOOSE x \in keys : TRUE
       IN  Contribution(f[k]) + SumOver(f, keys \ {k})

\* A ladder whose top tier starts at 60 instead of above 60.
momentumStatusInclusive(sum, n) ==
  IF sum >= 60000 * n /\ n > 0 THEN "very_strong"
  ELSE IF sum > 40000 * n THEN "strong"
  ELSE IF sum > 20000 * n THEN "building"
  ELSE IF sum < -20000 * n THEN "fading"
  ELSE "neutral"

\* The ladder over avgScore = sum / n (avgScore is 0 when n = 0).
momentumStatus(sum, n) ==
  IF sum > 60000 * n THEN "very_strong"
  ELSE IF sum > 40000 * n THEN "strong"
  ELSE IF sum > 20000 * n THEN "building"
  ELSE IF sum < -20000 * n THEN "fading"
  ELSE "neutral"

recommendationOf(status) ==
  CASE status = "very_strong" -> "aggressive_buy"
    [] status = "strong" -> "buy"
    [] status = "building" -> "cautious_buy"
    [] status = "fading" -> "sell"
    [] OTHER -> "hold"

\* A risk level kept in module state: it rises once an analysis was answered.
riskLevelOfRemembering(sum, n) == IF analyzed = {} THEN "low" ELSE "high"

riskLevelOf(sum, n) ==
  IF sum > 50000 * n THEN "high"
  ELSE IF sum > 30000 * n THEN "medium"
  ELSE "low"

AnalyzeResponse(coinData, a) ==
  LET marketData == coinData.market_data
      timeframes == TimeframesParam(a.timeframes)
  IN  IF marketData.tag # "object"
      THEN [status |-> 400, body |-> [error |-> "Market data not available"]]
      ELSE LET analysis == timeframeAnalysis(marketData, timeframes)
               n == Cardinality(DOMAIN analysis)
               sum == SumOver(analysis, DOMAIN analysis)
               status == momentumStatus(sum, n)
           IN  [ status |-> 200,
                 body |-> [ token |-> ToUpperCase(TokenParam(a.token)),
                            momentumScore |-> IF n > 0 THEN RoundDiv(sum, n * 100) ELSE 0,
                            status |-> status,
                            recommendation |-> recommendationOf(status),
                            timeframes |-> analysis,
                            technicals |->
                              [ rsi |-> calculateRSI(marketData.sparkline_7d),
                                volumeProfile |-> analyzeVolumeProfile(marketData),
                                crossChainFlow |-> analyzeCrossChainFlow(marketData),
                                socialSentiment |-> calculateSocialSentiment(marketData) ],
                            riskLevel |-> riskLevelOf(sum, n),
                            marketData |->
                              [ currentPrice |-> OrZero(marketData.current_price),
                                marketCap |-> OrZero(marketData.market_cap),
                                volume24h |-> OrZero(marketData.total_volume) ] ] ]

\* A start that issues the fetch before it looks the token up.
AnalyzeStartFetchFirst(token, timeframes) ==
  /\ pc = "idle"
  /\ pc' = "fetch"
  /\ args' = [op |-> "analyze", token |-> token, timeframes |-> timeframes]
  /\ fetches' = Issue("coingecko")
  /\ UNCHANGED <<upstream, rand, resp, analyzed, suspended, given>>

AnalyzeStart(token, timeframes) ==
  /\ pc = "idle"
  /\ args' = [op |-> "analyze", token |-> token, timeframes |-> timeframes]
  /\ IF getTokenId(ToUpperCase(TokenParam(token))) = "null"
     THEN /\ pc' = "done"
          /\ resp' = [status |-> 400, body |-> [error |-> "Token not supported"]]
          /\ UNCHANGED fetches
     ELSE /\ pc' = "fetch"
          /\ fetches' = Issue("coingecko")
          /\ UNCHANGED resp
  /\ UNCHANGED <<upstream, rand, analyzed, suspended, given>>

\* fetch rejects, or response.ok is false
AnalyzeFetchFail ==
  /\ pc = "fetch" /\ args.op = "analyze"
  /\ pc' = "done"
  /\ resp' = [status |-> 503,
              body |-> [error |-> "Failed to fetch live market data. Please try again later.",
                        fallback |-> "API temporarily unavailable"]]
  /\ fetches' = Settle("failed")
  /\ UNCHANGED <<args, upstream, rand, analyzed, suspended, given>>

\* A body read outside the fetch guard, as in scan: the outer catch answers.
AnalyzeBodyInvalidInternal ==
  /\ pc = "fetch" /\ args.op = "analyze"
  /\ pc' = "done"
  /\ resp' = [status |-> 500,
              body |-> [error |-> "Failed to analyze momentum with live data",
                        details |-> "Unknown error"]]
  /\ fetches' = Settle("invalid_body")
  /\ UNCHANGED <<args, upstream, rand, analyzed, suspended, given>>

\* response.ok, but response.json() rejects: still inside the fetch guard
AnalyzeBodyInvalid ==
  /\ pc = "fetch" /\ args.op = "analyze"
  /\ pc' = "done"
  /\ resp' = [status |-> 503,
              body |-> [error |-> "Failed to fetch live market data. Please try again later.",
                        fallback |-> "API temporarily unavailable"]]
  /\ fetches' = Settle("invalid_body")
  /\ UNCHANGED <<args, upstream, rand, analyzed, suspended, given>>

AnalyzeFetchOk ==
  /\ pc = "fetch" /\ args.op = "analyze"
  /\ pc' = "done"
  /\ resp' = AnalyzeResponse(upstream, args)
  /\ fetches' = Settle("ok")
  /\ UNCHANGED <<args, upstream, rand, analyzed, suspended, given>>

AnalyzeTokens == {"", "btc", "doge"}

AnalyzeTimeframes ==
  { Undefined,
    [tag |-> "list", val |-> <<"24h">>],
    [tag |-> "list", val |-> <<"7d", "1h">>],
    [tag |-> "list", val |-> <<"1h", "24h", "7d">>],
    [tag |-> "list", val |-> <<"4h">>] }

NextAnalyze ==
  \/ \E token \in AnalyzeTokens, timeframes \in AnalyzeTimeframes :
       AnalyzeStart(token, timeframes)
  \/ AnalyzeFetchFail
  \/ AnalyzeBodyInvalid
  \/ AnalyzeFetchOk
  \/ NextRequest

NoMarketData == [market_data |-> Undefined]

\* Bodies of the coin endpoint: every change is missing, null or a number.
CoinBodies ==
  { [market_data |-> md] :
      md \in [ tag : {"object"},
               price_change_percentage_1h_in_currency : {Undefined, Null, Num(150), Num(-600)},
               price_change_percentage_24h_in_currency : {Undefined, Null, Num(150), Num(-600)},
               price_change_percentage_7d_in_currency : {Undefined, Null, Num(150), Num(-600)},
               total_volume : {Undefined, Num(1000), Num(2000), Num(5000)},
               market_cap : {Num(10000)},
               current_price : {Num(100)},
               sparkline_7d : {Undefined} ] }
    \cup {NoMarketData}

InitAnalyze ==
  /\ InitRequest
  /\ upstream \in CoinBodies

SpecAnalyze == InitAnalyze /\ [][NextAnalyze]_vars

\* Price histories for the oscillator: two price levels, lengths around the
\* 14-point minimum and up to MaxHistory.
MaxHistory == 16

PriceLevels == {1, 2}

HistoryLengths == {0, RSIPeriod - 1, RSIPeriod, MaxHistory}

HistoryBodies ==
  { [market_data |->
       [ tag |-> "object",
         price_change_percentage_1h_in_currency |-> Num(150),
         price_change_percentage_24h_in_currency |-> Num(-600),
         price_change_percentage_7d_in_currency |-> Null,
         total_volume |-> Num(2000),
         market_cap |-> Num(10000),
         current_price |-> Num(100),
         sparkline_7d |-> h ]] :
      h \in {Undefined} \cup
            { [tag |-> "list", val |-> p] :
                p \in UNION { [1..k -> PriceLevels] : k \in HistoryLengths } } }

InitRSI ==
  /\ InitRequest
  /\ upstream \in HistoryBodies

NextRSI ==
  \/ AnalyzeStart("doge", Undefined)
  \/ AnalyzeStart("", Undefined)
  \/ AnalyzeFetchFail
  \/ AnalyzeBodyInvalid
  \/ AnalyzeFetchOk
  \/ NextRequest

SpecRSI == InitRSI /\ [][NextRSI]_vars

----------------------------------------------------------------------------
(* Properties of analyze *)

AnalyzeSucceeded == pc = "done" /\ args.op = "analyze" /\ resp.status = 200

History ==
  IF upstream.market_data.sparkline_7d.tag = "list"
  THEN upstream.market_data.sparkline_7d.val ELSE <<>>

\* No price of the history falls within its most recent 14 deltas.
NoRecentLoss ==
  \A i \in 1..(Len(History) - 1) :
    i > Len(History) - 1 - RSIPeriod => History[i + 1] >= History[i]

\* C5: the oscillator is within [0,100]; it is 50 when the history has fewer
\* than 14 points or is absent, and 100 when the history has at least 14 points
\* and no loss among its most recent 14 deltas.
C5_RSIBounds ==
  AnalyzeSucceeded =>
    LET rsi == resp.body.technicals.rsi
    IN  /\ rsi >= 0 /\ rsi <= 100
        /\ Len(History) < RSIPeriod => rsi = 50
        /\ (Len(History) >= RSIPeriod /\ NoRecentLoss) => rsi = 100

\* An analysis of a 16-point history whose only loss is older than the most
\* recent 14 deltas and whose last delta is a gain: the oscillator is 100.
C5_Witness ==
  /\ AnalyzeSucceeded
  /\ Len(History) = RSIPeriod + 2
  /\ History[2] < History[1]
  /\ History[Len(History)] > History[Len(History) - 1]
  /\ NoRecentLoss
  /\ resp.body.technicals.rsi = 100

\* C6: the timeframes mapping has an entry for t only if t was requested and
\* the snapshot carries a change value for t; a requested timeframe whose change
\* is null or not present at all produces no entry.
C6_EntryOnlyIfPresent ==
  AnalyzeSucceeded =>
    \A t \in DOMAIN resp.body.timeframes :
      /\ Includes(TimeframesParam(args.timeframes), t)
      /\ SourceChange(upstream.market_data, t).tag = "number"

\* The contribution of one returned timeframe entry, in thousandths:
\* min(|change| * 10, 50) + min(volume / 1e9 * 5, 25).
EntryPoints(e) ==
  (IF Abs(e.change) * 100 < 50000 THEN Abs(e.change) * 100 ELSE 50000)
    + (IF e.volume * 5 < 25000 THEN e.volume * 5 ELSE 25000)

EntrySum ==
  LET E == resp.body.timeframes
      part(t) == IF t \in DOMAIN E THEN EntryPoints(E[t]) ELSE 0
  IN  part("1h") + part("24h") + part("7d")

\* C7: the aggregate score is the mean of the contributions of the timeframes
\* that have an entry (0 when there is none), and status/recommendation follow
\* the five-tier ladder over that mean.
C7_MeanAndLadder ==
  AnalyzeSucceeded =>
    LET n == Cardinality(DOMAIN resp.body.timeframes)
        sum == EntrySum
        tier == IF n = 0 THEN "neutral"
                ELSE IF sum > 60000 * n THEN "very_strong"
                ELSE IF sum > 40000 * n /\ sum <= 60000 * n THEN "strong"
                ELSE IF sum > 20000 * n /\ sum <= 40000 * n THEN "building"
                ELSE IF sum < -20000 * n THEN "fading"
                ELSE "neutral"
    IN  /\ DOMAIN resp.body.timeframes \subseteq AnalyzedTimeframes
        /\ resp.body.momentumScore =
             (IF n = 0 THEN 0 ELSE (2 * sum + 100 * n) \div (200 * n))
        /\ resp.body.status = tier
        /\ resp.body.recommendation =
             (CASE tier = "very_strong" -> "aggressive_buy"
                [] tier = "strong" -> "buy"
                [] tier = "building" -> "cautious_buy"
                [] tier = "fading" -> "sell"
                [] OTHER -> "hold")

\* An analysis with two entries of unequal contribution (15 + 10 and 50 + 10
\* points) whose mean, 42.5, is in the strong tier.
C7_Witness ==
  /\ AnalyzeSucceeded
  /\ DOMAIN resp.body.timeframes = {"1h", "24h"}
  /\ EntryPoints(resp.body.timeframes["1h"]) = 25000
  /\ EntryPoints(resp.body.timeframes["24h"]) = 60000
  /\ resp.body.momentumScore = 425
  /\ resp.body.status = "strong"
  /\ resp.body.recommendation = "buy"

----------------------------------------------------------------------------
(* get-cross-chain-prices: price *)

DefaultPriceChains == <<"ethereum", "bsc", "polygon", "solana">>

\* searchParams.get("chains")?.split(",") || ["ethereum", "bsc", "polygon", "solana"]
ChainsParam(raw) == IF raw.tag = "undefined" THEN DefaultPriceChains ELSE raw.val

\* getTokenIds(symbol).coingecko: the same ten-token table as analyze.
getTokenIds(symbol) ==
  CASE symbol = "BTC" -> "bitcoin"
    [] symbol = "ETH" -> "ethereum"
    [] symbol = "SOL" -> "solana"
    [] symbol = "MATIC" -> "matic-network"
    [] symbol = "AVAX" -> "avalanche-2"
    [] symbol = "BNB" -> "binancecoin"
    [] symbol = "ADA" -> "cardano"
    [] symbol = "DOT" -> "polkadot"
    [] symbol = "LINK" -> "chainlink"
    [] symbol = "UNI" -> "uniswap"
    [] OTHER -> "null"

getBinanceSymbol(symbol) ==
  CASE symbol = "BTC" -> "BTCUSDT"
    [] symbol = "ETH" -> "ETHUSDT"
    [] symbol = "SOL" -> "SOLUSDT"
    [] symbol = "MATIC" -> "MATICUSDT"
    [] symbol = "AVAX" -> "AVAXUSDT"
    [] symbol = "BNB" -> "BNBUSDT"
    [] symbol = "ADA" -> "ADAUSDT"
    [] symbol = "DOT" -> "DOTUSDT"
    [] symbol = "LINK" -> "LINKUSDT"
    [] symbol = "UNI" -> "UNIUSDT"
    [] OTHER -> "null"

\* chainVariations: priceFactor in 1e-4, slippage in hundredths of a percent.
VariedChains ==
  {"ethereum", "bsc", "polygon", "solana", "arbitrum", "optimism", "avalanche"}

chainVariations(chain) ==
  CASE chain = "ethereum" -> [priceFactor |-> 10000, slippage |-> 10, dex |-> "Uniswap V3"]
    [] chain = "bsc" -> [priceFactor |-> 9980, slippage |-> 30, dex |-> "PancakeSwap"]
    [] chain = "polygon" -> [priceFactor |-> 10010, slippage |-> 40, dex |-> "QuickSwap"]
    [] chain = "solana" -> [priceFactor |-> 9990, slippage |-> 20, dex |-> "Jupiter"]
    [] chain = "arbitrum" -> [priceFactor |-> 10005, slippage |-> 15, dex |-> "Uniswap V3"]
    [] chain = "optimism" -> [priceFactor |-> 10002, slippage |-> 18, dex |-> "Uniswap V3"]
    [] chain = "avalanche" -> [priceFactor |-> 9970, slippage |-> 25, dex |-> "Trader Joe"]

\* A table in which every token trades under its own symbol on every chain.
tokenSymbolsNative(token, chain) == token

\* tokenSymbols[token]?.[chain], "undefined" when there is none
tokenSymbols(token, chain) ==
  CASE token = "BTC" /\ chain = "ethereum" -> "wBTC"
    [] token = "BTC" /\ chain = "bsc" -> "BTCB"
    [] token = "BTC" /\ chain = "polygon" -> "wBTC"
    [] token = "BTC" /\ chain = "solana" -> "Portal BTC"
    [] token = "BTC" /\ chain = "arbitrum" -> "wBTC"
    [] token = "BTC" /\ chain = "optimism" -> "wBTC"
    [] token = "BTC" /\ chain = "avalanche" -> "BTC.b"
    [] token = "ETH" /\ chain = "ethereum" -> "ETH"
    [] token = "ETH" /\ chain = "bsc" -> "ETH"
    [] token = "ETH" /\ chain = "polygon" -> "ETH"
    [] token = "ETH" /\ chain = "solana" -> "Wrapped ETH"
    [] token = "ETH" /\ chain = "arbitrum" -> "ETH"
    [] token = "ETH" /\ chain = "optimism" -> "ETH"
    [] token = "ETH" /\ chain = "avalanche" -> "WETH.e"
    [] token = "SOL" /\ chain = "solana" -> "SOL"
    [] token = "SOL" /\ chain = "ethereum" -> "SOL"
    [] token = "SOL" /\ chain = "bsc" -> "SOL"
    [] OTHER -> "undefined"

\* A check that only asks whether the chain has a price variation.
HasChainInfoAnyToken(chain, token) == chain \in VariedChains

\* getChainInfo returns a quote unless !chainData || !symbol
HasChainInfo(chain, token) ==
  chain \in VariedChains /\ tokenSymbols(token, chain) # "undefined"

MaxVolumeImpact == 20
NoiseBound == 20

\* Math.min(volume24h / 10000000000, 0.002), in 1e-4
volumeImpact(volume24h) == Min(volume24h, MaxVolumeImpact)

\* Draws three times as wide, within +/-0.6%.
NoiseSetWide == {-3 * NoiseBound, 0, 3 * NoiseBound - 1}

\* (Math.random() - 0.5) * 0.004 lies in [-0.002, 0.002); values in 1e-4
NoiseSet == {-NoiseBound, 0, NoiseBound - 1}

\* The quote of getChainInfo for a chain that has one; noise is the random draw.
getChainInfo(chain, token, basePrice, volume24h, noise) ==
  LET chainData == chainVariations(chain)
      finalPriceFactor == chainData.priceFactor + volumeImpact(volume24h) + noise
  IN  [ symbol |-> tokenSymbols(token, chain),
        price |-> basePrice * finalPriceFactor,
        slippage |-> chainData.slippage,
        dex |-> chainData.dex ]

\* Object.keys(crossChainPrices): the chains that got a quote, in the order of
\* their first occurrence in the request.
RECURSIVE QuoteKeys(_, _, _)
QuoteKeys(chains, token, seen) ==
  IF chains = <<>> THEN <<>>
  ELSE IF HasChainInfo(Head(chains), token) /\ Head(chains) \notin seen
       THEN <<Head(chains)>> \o QuoteKeys(Tail(chains), token, seen \cup {Head(chains)})
       ELSE QuoteKeys(Tail(chains), token, seen)

\* crossChainPrices after the loop: a chain listed twice keeps its last quote.
crossChainPrices(chains, token, basePrice, volume24h, noise) ==
  [ chain \in { chains[i] : i \in { j \in DOMAIN chains : HasChainInfo(chains[j], token) } } |->
      LET last == CHOOSE i \in DOMAIN chains :
                    /\ chains[i] = chain
                    /\ \A j \in DOMAIN chains : chains[j] = chain => j <= i
      IN  getChainInfo(chain, token, basePrice, volume24h, noise[last]) ]

MinPrice(quotes) ==
  CHOOSE m \in { quotes[c].price : c \in DOMAIN quotes } :
    \A c \in DOMAIN quotes : m <= quotes[c].price

MaxPrice(quotes) ==
  CHOOSE m \in { quotes[c].price : c \in DOMAIN quotes } :
    \A c \in DOMAIN quotes : m >= quotes[c].price

\* keys.find(chain => quotes[chain].price === price)
FindChain(keys, quotes, price) ==
  keys[CHOOSE i \in DOMAIN keys :
         /\ quotes[keys[i]].price = price
         /\ \A j \in DOMAIN keys : quotes[keys[j]].price = price => i <= j]

\* A test against the advertised minSpread of 0.5% instead of 1%.
profitableAtMinSpread(minPrice, maxPrice) == (maxPrice - minPrice) * 200 > minPrice

\* arbitrageOpportunity > 1 with arbitrageOpportunity = (max - min) / min * 100
profitable(minPrice, maxPrice) == (maxPrice - minPrice) * 100 > minPrice

\* The handler's locals at the Binance fetch, recomputed from the request, the
\* price body and the random draws.
PriceQuotes ==
  crossChainPrices(ChainsParam(args.chains), ToUpperCase(TokenParam(args.token)),
                   upstream.tokenData.usd, OrZero(upstream.tokenData.usd_24h_vol), rand)

PriceResponse(binanceData) ==
  LET token == ToUpperCase(TokenParam(args.token))
      quotes == PriceQuotes
      keys == QuoteKeys(ChainsParam(args.chains), token, {})
      minPrice == MinPrice(quotes)
      maxPrice == MaxPrice(quotes)
  IN  [ status |-> 200,
        body |-> [ token |-> token,
                   chains |-> quotes,
                   arbitrage |->
                     [ opportunity |-> RoundDiv((maxPrice - minPrice) * 10000, minPrice),
                       buyChain |-> FindChain(keys, quotes, minPrice),
                       sellChain |-> FindChain(keys, quotes, maxPrice),
                       profitable |-> profitable(minPrice, maxPrice),
                       minSpread |-> 50 ],
                   marketData |->
                     [ basePrice |-> upstream.tokenData.usd,
                       volume24h |-> OrZero(upstream.tokenData.usd_24h_vol),
                       change24h |-> OrZero(upstream.tokenData.usd_24h_change),
                       binanceData |-> binanceData ] ] ]

PriceStart(token, chains) ==
  /\ pc = "idle"
  /\ args' = [op |-> "price", token |-> token, chains |-> chains]
  /\ IF getTokenIds(ToUpperCase(TokenParam(token))) = "null"
     THEN /\ pc' = "done"
          /\ resp' = [status |-> 400, body |-> [error |-> "Token not supported"]]
          /\ UNCHANGED fetches
     ELSE /\ pc' = "fetch"
          /\ fetches' = Issue("coingecko")
          /\ UNCHANGED resp
  /\ UNCHANGED <<upstream, rand, analyzed, suspended, given>>

\* fetch rejects, or response.ok is false
PriceFetchFail ==
  /\ pc = "fetch" /\ args.op = "price"
  /\ pc' = "done"
  /\ resp' = [status |-> 503,
              body |-> [error |-> "Failed to fetch live price data. Please try again later.",
                        fallback |-> "API temporarily unavailable"]]
  /\ fetches' = Settle("failed")
  /\ UNCHANGED <<args, upstream, rand, analyzed, suspended, given>>

\* response.ok, but response.json() rejects: still inside the fetch guard
PriceBodyInvalid ==
  /\ pc = "fetch" /\ args.op = "price"
  /\ pc' = "done"
  /\ resp' = [status |-> 503,
              body |-> [error |-> "Failed to fetch live price data. Please try again later.",
                        fallback |-> "API temporarily unavailable"]]
  /\ fetches' = Settle("invalid_body")
  /\ UNCHANGED <<args, upstream, rand, analyzed, suspended, given>>

\* The price body arrived but has no entry for the token.
PriceNoTokenData ==
  /\ pc = "fetch" /\ args.op = "price"
  /\ upstream.tokenData.tag # "object"
  /\ pc' = "done"
  /\ resp' = [status |-> 400, body |-> [error |-> "Price data not available"]]
  /\ fetches' = Settle("ok")
  /\ UNCHANGED <<args, upstream, rand, analyzed, suspended, given>>

\* The price body arrived: one getChainInfo call per requested chain, each
\* quote with its own random draw (positions without a quote draw nothing and
\* hold 0), then either the empty-set error or the Binance fetch.
PriceFetchOk ==
  /\ pc = "fetch" /\ args.op = "price"
  /\ upstream.tokenData.tag = "object"
  /\ LET chains == ChainsParam(args.chains)
         token == ToUpperCase(TokenParam(args.token))
     IN  /\ \E noise \in [DOMAIN chains -> NoiseSet \cup {0}] :
              /\ \A i \in DOMAIN chains :
                   ~HasChainInfo(chains[i], token) => noise[i] = 0
              /\ rand' = noise
         /\ IF \A i \in DOMAIN chains : ~HasChainInfo(chains[i], token)
            THEN /\ pc' = "done"
                 /\ resp' = [status |-> 400,
                             body |-> [error |-> "No supported chains found for this token"]]
                 /\ fetches' = Settle("ok")
            ELSE IF getBinanceSymbol(token) = "null"
            THEN /\ pc' = "done"
                 /\ resp' = PriceResponse(Null)'
                 /\ fetches' = Settle("ok")
            ELSE /\ pc' = "binance"
                 /\ fetches' = Append(Settle("ok"), [to |-> "binance", result |-> "pending"])
                 /\ UNCHANGED resp
  /\ UNCHANGED <<args, upstream, analyzed, suspended, given>>

\* binanceResponse.ok and the ticker parsed
PriceBinanceOk ==
  /\ pc = "binance"
  /\ pc' = "done"
  /\ resp' = PriceResponse([ tag |-> "object",
                             volume |-> upstream.ticker.volume,
                             priceChange |-> upstream.ticker.priceChangePercent ])
  /\ fetches' = Settle("ok")
  /\ UNCHANGED <<args, upstream, rand, analyzed, suspended, given>>

\* A handler that lets the failure of the Binance fetch reach the caller.
PriceBinanceFailUnavailable ==
  /\ pc = "binance"
  /\ pc' = "done"
  /\ resp' = [status |-> 503,
              body |-> [error |-> "Failed to fetch live price data. Please try again later.",
                        fallback |-> "API temporarily unavailable"]]
  /\ fetches' = Settle("failed")
  /\ UNCHANGED <<args, upstream, rand, analyzed, suspended, given>>

\* the Binance fetch rejects, is not ok, or its body does not parse
PriceBinanceFail ==
  /\ pc = "binance"
  /\ pc' = "done"
  /\ resp' = PriceResponse(Null)
  /\ fetches' = Settle("failed")
  /\ UNCHANGED <<args, upstream, rand, analyzed, suspended, given>>

MaxChains == 2

PriceTokens == {"", "eth", "sol", "link", "MATIC", "AVAX", "BNB", "ADA", "DOT", "UNI", "doge"}

RequestableChains == {"ethereum", "polygon", "avalanche", "near"}

\* split(",") never yields an empty list
PriceChainLists ==
  {Undefined} \cup
    { [tag |-> "list", val |-> l] :
        l \in UNION { [1..k -> RequestableChains] : k \in 1..MaxChains } }

NextPrice ==
  \/ \E token \in PriceTokens, chains \in PriceChainLists : PriceStart(token, chains)
  \/ PriceFetchFail
  \/ PriceBodyInvalid
  \/ PriceNoTokenData
  \/ PriceFetchOk
  \/ PriceBinanceOk
  \/ PriceBinanceFail
  \/ NextRequest

\* Bodies of the simple-price endpoint, with the Binance ticker of the token.
PriceBodies ==
  { [tokenData |-> td, ticker |-> [volume |-> 1234, priceChangePercent |-> 150]] :
      td \in {Undefined} \cup
             [ tag : {"object"},
               usd : {100, 1000},
               usd_24h_vol : {Undefined, Num(5), Num(10), Num(40000)},
               usd_24h_change : {Num(-250)} ] }

InitPrice ==
  /\ InitRequest
  /\ upstream \in PriceBodies

SpecPrice == InitPrice /\ [][NextPrice]_vars

----------------------------------------------------------------------------
(* Properties of price *)

PriceDone == pc = "done" /\ args.op = "price"
PriceSucceeded == PriceDone /\ resp.status = 200

RequestedChains ==
  { ChainsParam(args.chains)[i] : i \in DOMAIN ChainsParam(args.chains) }

\* The chains on which a token has a wrapped symbol.
WrappedOn(token) ==
  CASE token \in {"BTC", "ETH"} ->
         {"ethereum", "bsc", "polygon", "solana", "arbitrum", "optimism", "avalanche"}
    [] token = "SOL" -> {"solana", "ethereum", "bsc"}
    [] OTHER -> {}

SupportedPriceTokens ==
  {"BTC", "ETH", "SOL", "MATIC", "AVAX", "BNB", "ADA", "DOT", "LINK", "UNI"}

RequestedToken == ToUpperCase(TokenParam(args.token))

\* C8: for a supported token the quote set holds exactly the requested chains
\* that have a wrapped symbol for it; when no requested chain has one the
\* request never succeeds and returns no quotes, and once the price data has
\* arrived it ends with the client-input error 400.
C8_QuotesExactlyMapped ==
  /\ PriceSucceeded =>
       /\ RequestedToken \in SupportedPriceTokens
       /\ DOMAIN resp.body.chains = RequestedChains \cap WrappedOn(RequestedToken)
  /\ ( /\ PriceDone
       /\ RequestedToken \in SupportedPriceTokens
       /\ RequestedChains \cap WrappedOn(RequestedToken) = {} ) =>
       /\ resp.status \in {400, 503}
       /\ DOMAIN resp.body \subseteq {"error", "fallback"}
       /\ fetches[1].result = "ok" => resp.status = 400

\* A price request for SOL on ethereum and polygon that succeeded with the
\* single quote of ethereum.
C8_Witness ==
  /\ PriceSucceeded
  /\ RequestedToken = "SOL"
  /\ RequestedChains = {"ethereum", "polygon"}
  /\ DOMAIN resp.body.chains = {"ethereum"}

\* A price request for a supported token without any wrapped symbol that got
\* its price data and ended with 400.
C8_WitnessEmpty ==
  /\ PriceDone
  /\ RequestedToken = "LINK"
  /\ "ethereum" \in RequestedChains
  /\ fetches[1].result = "ok"
  /\ upstream.tokenData.tag = "object"
  /\ resp.status = 400

ReturnedPrices == { resp.body.chains[c].price : c \in DOMAIN resp.body.chains }

VolumeLevels == {0, 5, 10, 20, 40000}

\* The volume impact a returned quote carries: price / basePrice less the
\* chain's factor and the random draw of its last occurrence.
ObservedImpact(chain) ==
  LET chains == ChainsParam(args.chains)
      last == CHOOSE i \in DOMAIN chains :
                /\ chains[i] = chain
                /\ \A j \in DOMAIN chains : chains[j] = chain => j <= i
  IN  resp.body.chains[chain].price \div upstream.tokenData.usd
        - chainVariations(chain).priceFactor - rand[last]

\* C10: every quote's price is basePrice * (chainPriceFactor + volumeImpact +
\* randomVariation) with the random variation within +/-0.002, the volume
\* impact at most 0.002, and the impact not larger than the impact of any
\* lower 24h volume (higher volume gives a smaller or equal impact).
C10_VolumeImpact ==
  PriceSucceeded =>
    \A chain \in DOMAIN resp.body.chains :
      /\ resp.body.chains[chain].price % upstream.tokenData.usd = 0
      /\ \A i \in DOMAIN rand : rand[i] >= -NoiseBound /\ rand[i] <= NoiseBound
      /\ ObservedImpact(chain) >= 0
      /\ ObservedImpact(chain) <= MaxVolumeImpact
      /\ \A lower \in VolumeLevels :
           lower <= resp.body.marketData.volume24h =>
             ObservedImpact(chain) <= volumeImpact(lower)

----------------------------------------------------------------------------
(* create-momentum-strategy: buildStrategy *)
(* Budgets are whole USD; maxPosition and amounts are thousandths of a USD. *)

DefaultBudget == 2000

\* parseFloat(searchParams.get("budget") || "2000")
BudgetParam(raw) == IF IsNum(raw) THEN raw.val ELSE DefaultBudget

\* searchParams.get("riskLevel") || "medium"
RiskLevelParam(raw) == IF raw = "" THEN "medium" ELSE raw

\* A table with the low and high multipliers exchanged.
riskMultiplierSwapped(riskLevel) ==
  CASE riskLevel = "low" -> 900
    [] riskLevel = "medium" -> 600
    [] riskLevel = "high" -> 300
    [] OTHER -> 600

\* riskMultipliers[riskLevel] || 0.6, in thousandths
riskMultiplier(riskLevel) ==
  CASE riskLevel = "low" -> 300
    [] riskLevel = "medium" -> 600
    [] riskLevel = "high" -> 900
    [] OTHER -> 600

TemplateTokens == {"BTC", "ETH", "SOL"}

\* strategies[token].allocation as the list of its entries, in the order of the
\* object literal; amount is maxPosition * (percentage / 100).
templateAllocation(token, maxPosition) ==
  LET entry(chain, percentage, symbol, reasoning) ==
        [ chain |-> chain, percentage |-> percentage,
          amount |-> (maxPosition * percentage) \div 100,
          symbol |-> symbol, reasoning |-> reasoning ]
  IN  CASE token = "BTC" ->
             << entry("ethereum", 40, "wBTC", "Highest liquidity, lowest slippage"),
                entry("bsc", 25, "BTCB", "Good liquidity, lower fees"),
                entry("polygon", 20, "wBTC", "Low fees, decent liquidity"),
                entry("solana", 15, "Portal BTC", "Fast execution, growing ecosystem") >>
        [] token = "ETH" ->
             << entry("ethereum", 50, "ETH", "Native chain, maximum liquidity"),
                entry("arbitrum", 25, "ETH", "L2 efficiency, high liquidity"),
                entry("bsc", 15, "ETH", "Cross-chain exposure"),
                entry("polygon", 10, "ETH", "Low fee option") >>
        [] token = "SOL" ->
             << entry("solana", 60, "SOL", "Native chain, best price discovery"),
                entry("ethereum", 25, "SOL", "Cross-chain arbitrage potential"),
                entry("bsc", 15, "SOL", "Additional exposure, lower fees") >>

templatePrimary(token) ==
  CASE token = "BTC" -> "ethereum"
    [] token = "ETH" -> "ethereum"
    [] token = "SOL" -> "solana"

templateExit(token) ==
  CASE token = "BTC" -> [profitTarget |-> 15, stopLoss |-> 8, timeLimit |-> "24h"]
    [] token = "ETH" -> [profitTarget |-> 12, stopLoss |-> 6, timeLimit |-> "18h"]
    [] token = "SOL" -> [profitTarget |-> 20, stopLoss |-> 10, timeLimit |-> "12h"]

\* A filter that keeps every template entry.
KeepAllocation(entries, chains) == entries

\* Object.entries(strategy.allocation) restricted to chains.includes(chain)
RECURSIVE FilterAllocation(_, _)
FilterAllocation(entries, chains) ==
  IF entries = <<>> THEN <<>>
  ELSE IF Includes(chains, Head(entries).chain)
       THEN <<Head(entries)>> \o FilterAllocation(Tail(entries), chains)
       ELSE FilterAllocation(Tail(entries), chains)

\* An insertion for an ascending order of percentage.
RECURSIVE InsertByPercentageAscending(_, _)
InsertByPercentageAscending(sorted, x) ==
  IF sorted = <<>> THEN <<x>>
  ELSE IF Head(sorted).percentage <= x.percentage
       THEN <<Head(sorted)>> \o InsertByPercentageAscending(Tail(sorted), x)
       ELSE <<x>> \o sorted

\* One step of the stable sort with comparator bData.percentage - aData.percentage
RECURSIVE InsertByPercentage(_, _)
InsertByPercentage(sorted, x) ==
  IF sorted = <<>> THEN <<x>>
  ELSE IF Head(sorted).percentage >= x.percentage
       THEN <<Head(sorted)>> \o InsertByPercentage(Tail(sorted), x)
       ELSE <<x>> \o sorted

RECURSIVE SortByPercentage(_)
SortByPercentage(s) ==
  IF s = <<>> THEN <<>>
  ELSE InsertByPercentage(SortByPercentage(SubSeq(s, 1, Len(s) - 1)), s[Len(s)])

\* A filter that rescales the kept entries to the whole position.
RenormalizedAllocation(kept) ==
  LET total == SumSeq([ i \in DOMAIN kept |-> kept[i].percentage ])
  IN  [ chain \in { kept[i].chain : i \in DOMAIN kept } |->
          LET e == kept[CHOOSE i \in DOMAIN kept : kept[i].chain = chain]
          IN  [ percentage |-> (e.percentage * 100) \div total,
                amount |-> (e.amount * 100) \div total,
                symbol |-> e.symbol, reasoning |-> e.reasoning ] ]

\* filteredAllocation: the kept entries keyed by chain, data unchanged
filteredAllocation(kept) ==
  [ chain \in { kept[i].chain : i \in DOMAIN kept } |->
      LET e == kept[CHOOSE i \in DOMAIN kept : kept[i].chain = chain]
      IN  [ percentage |-> e.percentage, amount |-> e.amount,
            symbol |-> e.symbol, reasoning |-> e.reasoning ] ]

StrategyResponse(a) ==
  LET token == ToUpperCase(TokenParam(a.token))
      budget == BudgetParam(a.budget)
      riskLevel == RiskLevelParam(a.riskLevel)
      chains == ChainsParam(a.chains)
      maxPosition == budget * riskMultiplier(riskLevel)
  IN  IF token \notin TemplateTokens
      THEN [status |-> 400, body |-> [error |-> "Strategy not available"]]
      ELSE LET kept == FilterAllocation(templateAllocation(token, maxPosition), chains)
               order == SortByPercentage(kept)
           IN  [ status |-> 200,
                 body |-> [ token |-> token,
                            budget |-> budget,
                            riskLevel |-> riskLevel,
                            maxPosition |-> maxPosition,
                            strategy |->
                              [ primary |-> templatePrimary(token),
                                allocation |-> filteredAllocation(kept),
                                executionOrder |-> [ i \in DOMAIN order |-> order[i].chain ],
                                exitStrategy |-> templateExit(token) ] ] ]

\* The whole handler: it awaits nothing.
StrategyRequest(token, budget, riskLevel, chains) ==
  /\ pc = "idle"
  /\ pc' = "done"
  /\ args' = [ op |-> "buildStrategy", token |-> token, budget |-> budget,
               riskLevel |-> riskLevel, chains |-> chains ]
  /\ resp' = StrategyResponse(args')
  /\ UNCHANGED <<upstream, rand, fetches, analyzed, suspended, given>>

StrategyTokens == {"", "eth", "sol", "link", "doge"}

StrategyBudgets == {Undefined, Num(-500), Num(0), Num(1), Num(1000)}

StrategyRiskLevels == {"", "low", "medium", "high", "extreme"}

StrategyChains == {"ethereum", "bsc", "arbitrum", "near"}

StrategyChainLists ==
  {Undefined} \cup
    { [tag |-> "list", val |-> l] :
        l \in UNION { [1..k -> StrategyChains] : k \in 1..MaxChains } }

NextStrategy ==
  \/ \E token \in StrategyTokens, budget \in StrategyBudgets,
        riskLevel \in StrategyRiskLevels, chains \in StrategyChainLists :
       StrategyRequest(token, budget, riskLevel, chains)
  \/ NextRequest

\* buildStrategy and plan read no provider.
NoProviders == [markets |-> <<>>]

InitStrategy ==
  /\ InitRequest
  /\ upstream = NoProviders

SpecStrategy == InitStrategy /\ [][NextStrategy]_vars

----------------------------------------------------------------------------
(* Properties of buildStrategy *)

StrategyDone == pc = "done" /\ args.op = "buildStrategy"
StrategySucceeded == StrategyDone /\ resp.status = 200

StrategyToken == ToUpperCase(TokenParam(args.token))

RequestedBudget == IF args.budget.tag = "number" THEN args.budget.val ELSE 2000

StrategyRequestedChains ==
  { ChainsParam(args.chains)[i] : i \in DOMAIN ChainsParam(args.chains) }

\* The allocation templates as the interface documents them: chain -> percent.
TemplatePercent(token) ==
  CASE token = "BTC" ->
         [ c \in {"ethereum", "bsc", "polygon", "solana"} |->
             CASE c = "ethereum" -> 40 [] c = "bsc" -> 25
               [] c = "polygon" -> 20 [] c = "solana" -> 15 ]
    [] token = "ETH" ->
         [ c \in {"ethereum", "arbitrum", "bsc", "polygon"} |->
             CASE c = "ethereum" -> 50 [] c = "arbitrum" -> 25
               [] c = "bsc" -> 15 [] c = "polygon" -> 10 ]
    [] token = "SOL" ->
         [ c \in {"solana", "ethereum", "bsc"} |->
             CASE c = "solana" -> 60 [] c = "ethereum" -> 25 [] c = "bsc" -> 15 ]

\* C11: buildStrategy returns maxPosition = budget * 0.3 for riskLevel low,
\* budget * 0.6 for medium and when riskLevel is omitted, budget * 0.9 for high.
C11_MaxPosition ==
  StrategySucceeded =>
    /\ args.riskLevel = "low" => resp.body.maxPosition = RequestedBudget * 300
    /\ args.riskLevel \in {"medium", ""} => resp.body.maxPosition = RequestedBudget * 600
    /\ args.riskLevel = "high" => resp.body.maxPosition = RequestedBudget * 900

\* buildStrategy(BTC, budget 2000, low risk) returned maxPosition 600.
C11_Witness ==
  /\ StrategySucceeded
  /\ StrategyToken = "BTC"
  /\ args.budget = Undefined
  /\ args.riskLevel = "low"
  /\ resp.body.maxPosition = 600000

\* C12: the allocation has exactly the keys (template chains of the token)
\* intersect (requested chains), and each kept entry has the template's
\* percentage and the amount maxPosition * percentage / 100: nothing is
\* renormalized when chains are dropped.
C12_AllocationFiltered ==
  StrategySucceeded =>
    LET alloc == resp.body.strategy.allocation
        template == TemplatePercent(StrategyToken)
    IN  /\ DOMAIN alloc = DOMAIN template \cap StrategyRequestedChains
        /\ \A c \in DOMAIN alloc :
             /\ alloc[c].percentage = template[c]
             /\ alloc[c].amount * 100 = resp.body.maxPosition * template[c]

\* buildStrategy(ETH, budget 1000, high risk, chains ethereum and near) kept
\* the single entry ethereum at 50% of the position, 450 of 900.
C12_Witness ==
  /\ StrategySucceeded
  /\ StrategyToken = "ETH"
  /\ StrategyRequestedChains = {"ethereum", "near"}
  /\ DOMAIN resp.body.strategy.allocation = {"ethereum"}
  /\ resp.body.maxPosition = 900000
  /\ resp.body.strategy.allocation["ethereum"].percentage = 50
  /\ resp.body.strategy.allocation["ethereum"].amount = 450000

RECURSIVE SumAmounts(_, _)
SumAmounts(alloc, keys) ==
  IF keys = {} THEN 0
  ELSE LET k == CHOOSE x \in keys : TRUE
       IN  alloc[k].amount + SumAmounts(alloc, keys \ {k})

AllocatedTotal ==
  SumAmounts(resp.body.strategy.allocation, DOMAIN resp.body.strategy.allocation)

AllTemplateChainsRequested ==
  DOMAIN TemplatePercent(StrategyToken) \subseteq StrategyRequestedChains

\* C13 as stated: for a non-negative budget the amounts sum to at most
\* maxPosition, with equality exactly when every template chain was requested.
C13_SumAtMostMaxPosition ==
  (StrategySucceeded /\ resp.body.budget >= 0) =>
    /\ AllocatedTotal <= resp.body.maxPosition
    /\ (AllocatedTotal = resp.body.maxPosition) = AllTemplateChainsRequested

\* C13 amended: for a non-negative budget the amounts sum to at most
\* maxPosition, with equality exactly when every template chain was requested
\* or the budget is 0 (then the position and every amount are 0).
C13_SumAtMostMaxPositionOrZero ==
  (StrategySucceeded /\ resp.body.budget >= 0) =>
    /\ AllocatedTotal <= resp.body.maxPosition
    /\ (AllocatedTotal = resp.body.maxPosition)
         = (AllTemplateChainsRequested \/ resp.body.budget = 0)

\* buildStrategy(SOL, budget 1000, default chains): all three template chains
\* are requested and the amounts add up to the whole position.
C13_Witness ==
  /\ StrategySucceeded
  /\ StrategyToken = "SOL"
  /\ resp.body.budget = 1000
  /\ args.chains = Undefined
  /\ Cardinality(DOMAIN resp.body.strategy.allocation) = 3
  /\ AllocatedTotal = resp.body.maxPosition
  /\ AllocatedTotal > 0

\* C14: executionOrder is a permutation of the keys of the returned allocation,
\* ordered by template percentage descending.
C14_ExecutionOrder ==
  StrategySucceeded =>
    LET alloc == resp.body.strategy.allocation
        order == resp.body.strategy.executionOrder
    IN  /\ Len(order) = Cardinality(DOMAIN alloc)
        /\ { order[i] : i \in DOMAIN order } = DOMAIN alloc
        /\ \A i, j \in DOMAIN order :
             i < j => TemplatePercent(StrategyToken)[order[i]]
                        >= TemplatePercent(StrategyToken)[order[j]]

\* buildStrategy(ETH, chains bsc then arbitrum) ordered arbitrum (25%) before
\* bsc (15%).
C14_Witness ==
  /\ StrategySucceeded
  /\ StrategyToken = "ETH"
  /\ ChainsParam(args.chains) = <<"bsc", "arbitrum">>
  /\ resp.body.strategy.executionOrder = <<"arbitrum", "bsc">>

----------------------------------------------------------------------------
(* execute-momentum-trade: plan *)

\* searchParams.get("strategy"): null when the parameter is absent, else its
\* text (possibly empty).
AbsentParam == [present |-> FALSE, text |-> ""]
PresentParam(s) == [present |-> TRUE, text |-> s]

\* A test that only rejects the absent parameter.
FalsyAbsentOnly(p) == ~p.present

\* `!strategy`: null and "" are falsy.
Falsy(p) == ~p.present \/ p.text = ""

DefaultPlanChains == <<"ethereum", "bsc">>

\* searchParams.get("chains")?.split(",") || ["ethereum", "bsc"]
PlanChainsParam(raw) == IF raw.tag = "undefined" THEN DefaultPlanChains ELSE raw.val

DefaultPlanAmounts == <<"1000", "500">>

\* searchParams.get("amounts")?.split(",") || ["1000", "500"]
PlanAmountsParam(raw) == IF raw.tag = "undefined" THEN DefaultPlanAmounts ELSE raw.val

PlaceholderAmount == "1000"

\* A lookup that reads the list one position too far.
amountAtNext(amounts, index) ==
  IF index + 1 \in DOMAIN amounts /\ amounts[index + 1] # ""
  THEN amounts[index + 1] ELSE PlaceholderAmount

\* amounts[index] || "1000", index counted from 1 here
amountAt(amounts, index) ==
  IF index \in DOMAIN amounts /\ amounts[index] # ""
  THEN amounts[index] ELSE PlaceholderAmount

ToLowerCase(s) ==
  CASE s = "BTC" -> "btc"
    [] s = "ETH" -> "eth"
    [] s = "SOL" -> "sol"
    [] s = "DOGE" -> "doge"
    [] OTHER -> s

\* symbols[token.toUpperCase()]?.[chain] || token
getTokenSymbol(token, chain) ==
  LET t == ToUpperCase(token)
  IN  CASE t = "BTC" /\ chain \in {"ethereum", "polygon"} -> "wBTC"
        [] t = "BTC" /\ chain = "bsc" -> "BTCB"
        [] t = "BTC" /\ chain = "solana" -> "Portal BTC"
        [] t = "BTC" /\ chain = "near" -> "nBTC"
        [] t = "ETH" /\ chain \in {"ethereum", "bsc", "polygon", "arbitrum"} -> "ETH"
        [] t = "ETH" /\ chain = "solana" -> "Wrapped ETH"
        [] t = "ETH" /\ chain = "near" -> "nETH"
        [] t = "SOL" /\ chain \in {"solana", "ethereum", "bsc"} -> "SOL"
        [] t = "SOL" /\ chain = "near" -> "nSOL"
        [] OTHER -> token

getEstimatedGas(chain) ==
  CASE chain = "ethereum" -> "0.015 ETH"
    [] chain = "bsc" -> "0.003 BNB"
    [] chain = "polygon" -> "0.01 MATIC"
    [] chain = "arbitrum" -> "0.005 ETH"
    [] chain = "solana" -> "0.001 SOL"
    [] chain = "near" -> "0.01 NEAR"
    [] OTHER -> "0.01 ETH"

getExpectedSlippage(chain) ==
  CASE chain = "ethereum" -> "0.1%"
    [] chain = "bsc" -> "0.3%"
    [] chain = "polygon" -> "0.4%"
    [] chain \in {"arbitrum", "solana"} -> "0.2%"
    [] chain = "near" -> "0.5%"
    [] OTHER -> "0.5%"

getBestDex(chain) ==
  CASE chain \in {"ethereum", "arbitrum"} -> "Uniswap V3"
    [] chain = "bsc" -> "PancakeSwap"
    [] chain = "polygon" -> "QuickSwap"
    [] chain = "solana" -> "Jupiter"
    [] chain = "near" -> "Ref Finance"
    [] OTHER -> "Unknown DEX"

getDexAddress(chain) ==
  CASE chain \in {"ethereum", "arbitrum"} -> "0xE592427A0AEce92De3Edee1F18E0157C05861564"
    [] chain = "bsc" -> "0x10ED43C718714eb63d5aA57B78B54704E256024E"
    [] chain = "polygon" -> "0xa5E0829CaCEd8fFDD4De3c43696c57F7D7A678ff"
    [] OTHER -> "0x0000000000000000000000000000000000000000"

getChainId(chain) ==
  CASE chain = "ethereum" -> 1
    [] chain = "bsc" -> 56
    [] chain = "polygon" -> 137
    [] chain = "arbitrum" -> 42161
    [] OTHER -> 1

\* The swap call data: a fixed prefix, the lowercased token, padding, the amount.
generateSwapData(token, amount) == <<"0x414bf389", ToLowerCase(token), amount>>

\* A numbering of the trades that starts at 0.
priorityFromZero(index) == index - 1

\* priority: index + 1 for the 0-based index of map(); positions are counted
\* from 1 here, so the priority is the position.
priorityOf(index) == index

\* chains.map((chain, index) => {...}) of executionPlan.trades
planTrades(token, chains, amounts) ==
  [ i \in DOMAIN chains |->
      [ chain |-> chains[i],
        action |-> "buy",
        amount |-> amountAt(amounts, i),
        symbol |-> getTokenSymbol(token, chains[i]),
        estimatedGas |-> getEstimatedGas(chains[i]),
        expectedSlippage |-> getExpectedSlippage(chains[i]),
        dex |-> getBestDex(chains[i]),
        priority |-> priorityOf(i) ] ]

\* chains.map((chain, index) => {...}) of transactionPayloads
transactionPayloads(token, chains, amounts) ==
  [ i \in DOMAIN chains |->
      IF chains[i] = "near"
      THEN [ chain |-> chains[i],
             type |-> "near_transaction",
             payload |-> [ receiverId |-> "dex.near",
                           token_out |-> getTokenSymbol(token, chains[i]),
                           amount_in |-> amountAt(amounts, i),
                           deposit |-> amountAt(amounts, i) ] ]
      ELSE [ chain |-> chains[i],
             type |-> "evm_transaction",
             payload |-> [ to |-> getDexAddress(chains[i]),
                           value |-> amountAt(amounts, i),
                           data |-> generateSwapData(token, amountAt(amounts, i)),
                           chainId |-> getChainId(chains[i]) ] ] ]

PlanResponse(a) ==
  LET token == TokenParam(a.token)
      chains == PlanChainsParam(a.chains)
      amounts == PlanAmountsParam(a.amounts)
  IN  IF Falsy(a.strategy)
      THEN [status |-> 400, body |-> [error |-> "Strategy parameter is required"]]
      ELSE [ status |-> 200,
             body |-> [ executionPlan |->
                          [ token |-> ToUpperCase(token),
                            status |-> "ready_for_execution",
                            trades |-> planTrades(token, chains, amounts) ],
                        transactionPayloads |->
                          transactionPayloads(token, chains, amounts) ] ]

\* The whole handler: it awaits nothing.
PlanRequest(strategy, token, chains, amounts) ==
  /\ pc = "idle"
  /\ pc' = "done"
  /\ args' = [ op |-> "plan", strategy |-> strategy, token |-> token,
               chains |-> chains, amounts |-> amounts ]
  /\ resp' = PlanResponse(args')
  /\ UNCHANGED <<upstream, rand, fetches, analyzed, suspended, given>>

PlanStrategies == {AbsentParam, PresentParam(""), PresentParam("momentum")}

PlanTokens == {"", "eth", "doge"}

PlanChains == {"ethereum", "near", "avalanche"}

PlanChainLists ==
  {Undefined} \cup
    { [tag |-> "list", val |-> l] :
        l \in UNION { [1..n -> PlanChains] : n \in 1..MaxChains } }

MaxAmounts == 3

PlanAmounts == {"", "250"}

PlanAmountLists ==
  {Undefined} \cup
    { [tag |-> "list", val |-> l] :
        l \in UNION { [1..n -> PlanAmounts] : n \in 1..MaxAmounts } }

NextPlan ==
  \/ \E strategy \in PlanStrategies, token \in PlanTokens,
        chains \in PlanChainLists, amounts \in PlanAmountLists :
       PlanRequest(strategy, token, chains, amounts)
  \/ NextRequest

InitPlan ==
  /\ InitRequest
  /\ upstream = NoProviders

SpecPlan == InitPlan /\ [][NextPlan]_vars

----------------------------------------------------------------------------
(* Properties of plan *)

PlanDone == pc = "done" /\ args.op = "plan"
PlanSucceeded == PlanDone /\ resp.status = 200

PlanChainsGiven == IF args.chains.tag = "undefined" THEN <<"ethereum", "bsc">> ELSE args.chains.val
PlanAmountsGiven == IF args.amounts.tag = "undefined" THEN <<"1000", "500">> ELSE args.amounts.val

\* C15: plan returns exactly one trade per entry of the input chain list, in
\* input order, whatever the length of the amounts list: as many trades as
\* chains, and the trade at position i has the i-th chain and, counting
\* positions from 0, priority i + 1.
C15_OneTradePerChain ==
  PlanSucceeded =>
    LET trades == resp.body.executionPlan.trades
    IN  /\ Len(trades) = Len(PlanChainsGiven)
        /\ \A i \in 1..Len(PlanChainsGiven) :
             /\ trades[i].chain = PlanChainsGiven[i]
             /\ trades[i].priority = (i - 1) + 1
        /\ { trades[i].priority : i \in DOMAIN trades } = 1..Len(PlanChainsGiven)

\* plan over chains near, ethereum with a single amount returned two trades,
\* near first with priority 1, ethereum second with priority 2.
C15_Witness ==
  /\ PlanSucceeded
  /\ PlanChainsGiven = <<"near", "ethereum">>
  /\ Len(PlanAmountsGiven) = 1
  /\ Len(resp.body.executionPlan.trades) = 2
  /\ resp.body.executionPlan.trades[1].chain = "near"
  /\ resp.body.executionPlan.trades[2].priority = 2

\* plan over one chain with three amounts returned one trade.
C15_WitnessMoreAmounts ==
  /\ PlanSucceeded
  /\ Len(PlanChainsGiven) = 1
  /\ Len(PlanAmountsGiven) = 3
  /\ Len(resp.body.executionPlan.trades) = 1

\* A strategy-less plan answers 400 with an error body only.
PlanRejects(r) ==
  /\ r.status = 400
  /\ DOMAIN r.body = {"error"}

\* C16: plan with an absent or empty strategy parameter ends with 400 and no
\* execution plan or payloads, whatever the other parameters; with a
\* non-empty strategy it succeeds for every token, chain list and amounts
\* list, with a plan and payloads for every chain.
C16_StrategyRequired ==
  PlanDone =>
    IF ~args.strategy.present \/ args.strategy.text = ""
    THEN PlanRejects(resp)
    ELSE /\ resp.status = 200
         /\ {"executionPlan", "transactionPayloads"} \subseteq DOMAIN resp.body
         /\ Len(resp.body.transactionPayloads) = Len(PlanChainsGiven)

\* plan(strategy = "", chains = ethereum, amounts = 250) was rejected.
C16_Witness ==
  /\ PlanDone
  /\ args.strategy = PresentParam("")
  /\ args.chains.tag = "list"
  /\ args.amounts.tag = "list"
  /\ PlanRejects(resp)

\* plan(strategy = "momentum", token doge, chain avalanche) succeeded on the
\* fallback values.
C16_WitnessFallback ==
  /\ PlanSucceeded
  /\ args.token = "doge"
  /\ PlanChainsGiven = <<"avalanche">>
  /\ resp.body.executionPlan.trades[1].symbol = "doge"
  /\ resp.body.executionPlan.trades[1].dex = "Unknown DEX"

----------------------------------------------------------------------------
(* The five operations together: requests of any operation, one after the   *)
(* other, against one set of provider answers.                              *)

AllMarkets ==
  {<<>>} \cup
    { <<c>> : c \in { d \in Coins : /\ d.symbol = "btc"
                                    /\ d.price_change_percentage_24h = Num(-700)
                                    /\ d.price_change_percentage_7d_in_currency = Num(900) } }

AllCoinBodies ==
  { b \in CoinBodies :
      \/ b = NoMarketData
      \/ /\ b.market_data.price_change_percentage_1h_in_currency = Num(150)
         /\ b.market_data.price_change_percentage_24h_in_currency = Num(-600)
         /\ b.market_data.price_change_percentage_7d_in_currency = Null
         /\ b.market_data.total_volume = Num(2000) }

AllPriceBodies ==
  { b \in PriceBodies :
      \/ b.tokenData = Undefined
      \/ /\ b.tokenData.usd = 100
         /\ b.tokenData.usd_24h_vol = Num(10) }

\* Chain lists of the strategy and plan requests made next to the others.
AllChainLists == {Undefined, [tag |-> "list", val |-> <<"near">>]}

InitAll ==
  /\ InitRequest
  /\ upstream \in { [ markets |-> m, market_data |-> c.market_data,
                      tokenData |-> p.tokenData, ticker |-> p.ticker ] :
                      m \in AllMarkets, c \in AllCoinBodies, p \in AllPriceBodies }

NextAll ==
  \/ \E threshold \in ScanThresholds, timeframe \in ScanTimeframes :
       ScanStart(threshold, timeframe)
  \/ ScanFetchFail
  \/ ScanBodyInvalid
  \/ ScanFetchOk
  \/ \E token \in AnalyzeTokens, timeframes \in AnalyzeTimeframes :
       AnalyzeStart(token, timeframes)
  \/ AnalyzeFetchFail
  \/ AnalyzeBodyInvalid
  \/ AnalyzeFetchOk
  \/ \E token \in PriceTokens, chains \in PriceChainLists : PriceStart(token, chains)
  \/ PriceFetchFail
  \/ PriceBodyInvalid
  \/ PriceNoTokenData
  \/ PriceFetchOk
  \/ PriceBinanceOk
  \/ PriceBinanceFail
  \/ \E token \in StrategyTokens, budget \in {Undefined, Num(0)},
        riskLevel \in {"", "high"}, chains \in AllChainLists :
       StrategyRequest(token, budget, riskLevel, chains)
  \/ \E strategy \in PlanStrategies, token \in PlanTokens, chains \in AllChainLists :
       PlanRequest(strategy, token, chains, Undefined)
  \/ NextRequest

SpecAll == InitAll /\ [][NextAll]_vars

----------------------------------------------------------------------------
(* Properties of the operations together *)

\* The ten tokens of the analyze and price mappings.
MappedTokens == {"BTC", "ETH", "SOL", "MATIC", "AVAX", "BNB", "ADA", "DOT", "LINK", "UNI"}

\* The tokens that have an allocation template.
TokensWithTemplate == {"BTC", "ETH", "SOL"}

InvocationToken == ToUpperCase(TokenParam(args.token))

OutsideSupportedSet ==
  \/ args.op \in {"analyze", "price"} /\ InvocationToken \notin MappedTokens
  \/ args.op = "buildStrategy" /\ InvocationToken \notin TokensWithTemplate

\* C17: a token outside the operation's supported set is rejected with 400
\* and no result data: analyze and price for a token outside the ten-token
\* mapping, buildStrategy for a token without a template. The request is never
\* in any other position than finished with that error.
C17_UnsupportedTokenRejected ==
  OutsideSupportedSet =>
    /\ pc = "done"
    /\ resp.status = 400
    /\ DOMAIN resp.body = {"error"}

\* analyze(doge) ended with 400.
C17_Witness ==
  /\ pc = "done" /\ args.op = "analyze"
  /\ args.token = "doge"
  /\ resp.status = 400

\* price(doge) ended with 400.
C17_WitnessPrice ==
  /\ pc = "done" /\ args.op = "price"
  /\ args.token = "doge"
  /\ resp.status = 400

\* buildStrategy(link), a token of the ten-token mapping without a template,
\* ended with 400.
C17_WitnessStrategy ==
  /\ pc = "done" /\ args.op = "buildStrategy"
  /\ args.token = "link"
  /\ resp.status = 400

ResultFields ==
  { "tokens", "momentumDetected", "summary", "threshold", "timeframe",
    "momentumScore", "status", "recommendation", "timeframes", "technicals",
    "riskLevel", "marketData", "chains", "arbitrage", "token", "budget",
    "maxPosition", "strategy", "executionPlan", "transactionPayloads" }

\* C18: every finished invocation of the five operations has exactly one of
\* the outcomes success (200), client-input error (400), upstream unavailable
\* (503), internal failure (500); a failure carries an error message and no
\* result data, a success carries no error; no request finishes without a
\* response.
C18_StructuredOutcome ==
  pc = "done" =>
    /\ args.op \in {"scan", "analyze", "price", "buildStrategy", "plan"}
    /\ resp.status \in {200, 400, 503, 500}
    /\ resp.status # 200 =>
         /\ "error" \in DOMAIN resp.body
         /\ DOMAIN resp.body \cap ResultFields = {}
    /\ resp.status = 200 =>
         /\ "error" \notin DOMAIN resp.body
         /\ DOMAIN resp.body \cap ResultFields # {}

\* scan ended with 500 after a body that could not be read.
C18_Witness ==
  /\ pc = "done" /\ args.op = "scan"
  /\ resp.status = 500
  /\ fetches[1].result = "invalid_body"

\* price ended with 503.
C18_WitnessUnavailable ==
  /\ pc = "done" /\ args.op = "price"
  /\ resp.status = 503

\* plan ended with success.
C18_WitnessSuccess ==
  /\ pc = "done" /\ args.op = "plan"
  /\ resp.status = 200

FailedFetches == { i \in DOMAIN fetches : fetches[i].result = "failed" }

EachFetchOnce ==
  \A i, j \in DOMAIN fetches : i # j => fetches[i].to # fetches[j].to

\* C19 as stated: in scan, analyze and price a failed upstream fetch ends the
\* operation at once with 503, and each outbound fetch is issued at most once.
C19_FailedFetchEnds503 ==
  /\ EachFetchOnce
  /\ FailedFetches # {} =>
       /\ pc = "done"
       /\ resp.status = 503
       /\ DOMAIN resp.body \cap ResultFields = {}

\* C19 amended: a failed market-data (CoinGecko) fetch ends the operation at
\* once with 503 and nothing else is fetched or computed; a failed Binance
\* fetch in price ends the operation at once too, but with the success
\* response and binanceData null; no fetch is retried: each destination is
\* fetched at most once per invocation.
C19_FailedPrimaryFetchEnds503 ==
  /\ EachFetchOnce
  /\ \A i \in FailedFetches :
       /\ pc = "done"
       /\ i = Len(fetches)
       /\ IF fetches[i].to = "coingecko"
          THEN /\ i = 1
               /\ resp.status = 503
               /\ DOMAIN resp.body \cap ResultFields = {}
          ELSE /\ args.op = "price"
               /\ resp.status = 200
               /\ resp.body.marketData.binanceData = Null

\* analyze's only fetch failed and the request ended with 503.
C19_Witness ==
  /\ pc = "done" /\ args.op = "analyze"
  /\ fetches = <<[to |-> "coingecko", result |-> "failed"]>>
  /\ resp.status = 503

\* price's Binance fetch failed after the CoinGecko fetch succeeded.
C19_WitnessSecondary ==
  /\ pc = "done" /\ args.op = "price"
  /\ fetches = <<[to |-> "coingecko", result |-> "ok"], [to |-> "binance", result |-> "failed"]>>
  /\ resp.status = 200

\* The answered analyze requests that had the inputs of the current one.
EarlierSameInputs ==
  { h \in analyzed :
      /\ h.token = InvocationToken
      /\ h.timeframes = TimeframesParam(args.timeframes) }

----------------------------------------------------------------------------
(* Requests in flight together.  A handler runs without interruption up to  *)
(* its next await; while it waits on a fetch the event loop may start or    *)
(* resume another request.  Each invocation of GET has its own locals.      *)

MaxSuspended == 2

\* The locals of the running request.
Frame == [pc |-> pc, args |-> args, rand |-> rand, fetches |-> fetches, resp |-> resp]

RemoveAt(seq, i) == [ j \in 1..(Len(seq) - 1) |-> IF j < i THEN seq[j] ELSE seq[j + 1] ]

\* The running handler waits on `await fetch(...)`: it is set aside and the
\* event loop is free for another request.
Yield ==
  /\ pc \in {"fetch", "binance"}
  /\ Len(suspended) < MaxSuspended
  /\ suspended' = Append(suspended, Frame)
  /\ pc' = "idle"
  /\ args' = NoArgs
  /\ rand' = <<>>
  /\ fetches' = <<>>
  /\ resp' = NoResp
  /\ given' = NoArgs
  /\ UNCHANGED <<upstream, analyzed>>

\* A resumption in which the request parameters live in module scope: the
\* resumed handler continues with whatever the last request left there.
ResumeSharedParams(i) ==
  /\ pc = "idle"
  /\ i \in DOMAIN suspended
  /\ pc' = suspended[i].pc
  /\ rand' = suspended[i].rand
  /\ fetches' = suspended[i].fetches
  /\ resp' = suspended[i].resp
  /\ given' = suspended[i].args
  /\ suspended' = RemoveAt(suspended, i)
  /\ UNCHANGED <<args, upstream, analyzed>>

\* The fetch of a waiting request settles and the event loop, free, continues
\* that request's handler with the locals it had.
Resume(i) ==
  /\ pc = "idle"
  /\ i \in DOMAIN suspended
  /\ pc' = suspended[i].pc
  /\ args' = suspended[i].args
  /\ rand' = suspended[i].rand
  /\ fetches' = suspended[i].fetches
  /\ resp' = suspended[i].resp
  /\ given' = suspended[i].args
  /\ suspended' = RemoveAt(suspended, i)
  /\ UNCHANGED <<upstream, analyzed>>

OneChain == [tag |-> "list", val |-> <<"ethereum">>]

NextConcurrent ==
  \/ ScanStart(Undefined, "24h")
  \/ ScanFetchFail
  \/ ScanBodyInvalid
  \/ ScanFetchOk
  \/ \E token \in {"btc", "doge"} : AnalyzeStart(token, [tag |-> "list", val |-> <<"24h">>])
  \/ AnalyzeFetchFail
  \/ AnalyzeBodyInvalid
  \/ AnalyzeFetchOk
  \/ \E token \in {"sol", "link"} : PriceStart(token, OneChain)
  \/ PriceFetchFail
  \/ PriceBodyInvalid
  \/ PriceNoTokenData
  \/ PriceFetchOk
  \/ PriceBinanceOk
  \/ PriceBinanceFail
  \/ StrategyRequest("eth", Undefined, "", OneChain)
  \/ PlanRequest(PresentParam("momentum"), "eth", OneChain, Undefined)
  \/ NextRequest
  \/ Yield
  \/ \E i \in 1..MaxSuspended : Resume(i)

InitConcurrent ==
  /\ InitRequest
  /\ upstream \in { [ markets |-> m, market_data |-> c.market_data,
                      tokenData |-> p.tokenData, ticker |-> p.ticker ] :
                      m \in AllMarkets, c \in AllCoinBodies, p \in AllPriceBodies }

SpecConcurrent == InitConcurrent /\ [][NextConcurrent]_vars

----------------------------------------------------------------------------
(* Properties of requests in flight together *)

Resumed == given.op # "none"

\* What the request with parameters a, fetch outcomes f and random draws r
\* answers when it is the only request.
AnswersAlone(a, f, r) ==
  CASE a.op = "scan" ->
         CASE f[1].result = "failed" -> resp.status = 503
           [] f[1].result = "invalid_body" -> resp.status = 500
           [] OTHER -> resp = ScanResponse(upstream.markets, a)
    [] a.op = "analyze" ->
         IF f[1].result # "ok" THEN resp.status = 503
         ELSE resp = AnalyzeResponse(upstream, a)
    [] a.op = "price" ->
         LET token == ToUpperCase(TokenParam(a.token))
             wanted == { ChainsParam(a.chains)[i] : i \in DOMAIN ChainsParam(a.chains) }
         IN  IF f[1].result # "ok" THEN resp.status = 503
             ELSE IF upstream.tokenData.tag # "object" \/ wanted \cap WrappedOn(token) = {}
             THEN resp.status = 400
             ELSE /\ resp.status = 200
                  /\ resp.body.token = token
                  /\ resp.body.chains =
                       crossChainPrices(ChainsParam(a.chains), token, upstream.tokenData.usd,
                                        OrZero(upstream.tokenData.usd_24h_vol), r)
                  /\ (Len(f) = 2 /\ f[2].result = "failed") =>
                       resp.body.marketData.binanceData = Null
    [] OTHER -> FALSE

\* C21: a request that waited on its fetch while other requests were started,
\* suspended, resumed or answered continues with the parameters it was given
\* and ends with the answer it gives when it runs alone with the same
\* parameters, fetch outcomes and random draws.
C21_InterleavingIsolated ==
  Resumed =>
    /\ args = given
    /\ pc \in {"fetch", "binance", "done"}
    /\ pc = "done" => AnswersAlone(given, fetches, rand)

\* A price request for SOL that waited behind others is answered with
\* success while an analyze request still waits on its fetch.
C21_Witness ==
  /\ Resumed
  /\ pc = "done"
  /\ given.op = "price"
  /\ resp.status = 200
  /\ \E i \in DOMAIN suspended :
       suspended[i].args.op = "analyze" /\ suspended[i].pc = "fetch"

----------------------------------------------------------------------------
(* Properties of buildStrategy: the empty allocation *)

\* C22: buildStrategy for a supported token and a chain list that shares no
\* chain with the token's template reports a client-input error (400) with a
\* message, not a successful strategy.
C22_EmptyAllocationRejected ==
  ( /\ StrategyDone
    /\ StrategyToken \in TokensWithTemplate
    /\ DOMAIN TemplatePercent(StrategyToken) \cap StrategyRequestedChains = {} ) =>
    /\ resp.status = 400
    /\ "error" \in DOMAIN resp.body

----------------------------------------------------------------------------
(* determineTrend: both copies applied to one change *)

MaxChange == 1600

TrendChanges == {Null, Undefined} \cup { Num(c) : c \in (-MaxChange)..MaxChange }

\* determineTrend(changePercent) of detect-momentum and of analyze-momentum
ClassifyTrend(change) ==
  /\ pc = "idle"
  /\ pc' = "done"
  /\ args' = [op |-> "determineTrend", change |-> change]
  /\ resp' = [ status |-> 200,
               body |-> [ scan |-> determineTrend(change),
                          analyze |-> determineTrendAnalyze(change) ] ]
  /\ UNCHANGED <<upstream, rand, fetches, analyzed, suspended, given>>

NextTrend ==
  \/ \E change \in TrendChanges : ClassifyTrend(change)
  \/ NextRequest

InitTrend ==
  /\ InitRequest
  /\ upstream = NoProviders

SpecTrend == InitTrend /\ [][NextTrend]_vars

TrendBuckets ==
  { "very_bullish", "strong_bullish", "bullish", "neutral",
    "bearish", "strong_bearish", "very_bearish" }

\* The buckets as intervals of the change, in hundredths of a percent.
InBucket(bucket, c) ==
  CASE bucket = "very_bullish" -> c > 1500
    [] bucket = "strong_bullish" -> 800 < c /\ c <= 1500
    [] bucket = "bullish" -> 300 < c /\ c <= 800
    [] bucket = "neutral" -> -300 < c /\ c <= 300
    [] bucket = "bearish" -> -800 < c /\ c <= -300
    [] bucket = "strong_bearish" -> -1500 < c /\ c <= -800
    [] bucket = "very_bearish" -> c <= -1500

\* C23: every signed change falls in exactly one of the seven buckets,
\* change > 15 very_bullish, 8 < change <= 15 strong_bullish, 3 < change <= 8
\* bullish, -3 < change <= 3 neutral, -8 < change <= -3 bearish,
\* -15 < change <= -8 strong_bearish, change <= -15 very_bearish; a null or
\* undefined change is neutral; the scan and the analyze copy return the
\* same bucket.
C23_TrendLadder ==
  (pc = "done" /\ args.op = "determineTrend") =>
    /\ resp.body.scan = resp.body.analyze
    /\ IF args.change.tag = "number"
       THEN /\ { b \in TrendBuckets : InBucket(b, args.change.val) } = {resp.body.scan}
            /\ { b \in TrendBuckets : InBucket(b, args.change.val) } = {resp.body.analyze}
       ELSE resp.body.scan = "neutral" /\ resp.body.analyze = "neutral"

\* A change of exactly -3% is classified bearish by both copies.
C23_Witness ==
  /\ pc = "done" /\ args.op = "determineTrend"
  /\ args.change = Num(-300)
  /\ resp.body.scan = "bearish"
  /\ resp.body.analyze = "bearish"

\* A null change is classified neutral.
C23_WitnessNull ==
  /\ pc = "done" /\ args.op = "determineTrend"
  /\ args.change = Null
  /\ resp.body.scan = "neutral"

----------------------------------------------------------------------------
(* Properties of plan: amounts *)

\* The amount a transaction payload carries.
PayloadAmounts(p) ==
  IF p.type = "near_transaction"
  THEN {p.payload.amount_in, p.payload.deposit}
  ELSE {p.payload.value}

\* C24: the trade at position i has the amount amounts[i] when that entry is
\* present and non-empty and "1000" otherwise; amounts beyond the chain list
\* are ignored; the payload at position i has the chain and the amount of the
\* trade at position i.
C24_AmountsByPosition ==
  PlanSucceeded =>
    LET trades == resp.body.executionPlan.trades
        payloads == resp.body.transactionPayloads
    IN  /\ Len(trades) = Len(PlanChainsGiven)
        /\ Len(payloads) = Len(PlanChainsGiven)
        /\ \A i \in 1..Len(PlanChainsGiven) :
             /\ trades[i].amount =
                  IF i <= Len(PlanAmountsGiven) /\ PlanAmountsGiven[i] # ""
                  THEN PlanAmountsGiven[i] ELSE "1000"
             /\ payloads[i].chain = trades[i].chain
             /\ PayloadAmounts(payloads[i]) = {trades[i].amount}

\* plan over near, ethereum with amounts "", 250, 250: the first trade falls
\* back to 1000, the second takes 250, the third amount is ignored.
C24_Witness ==
  /\ PlanSucceeded
  /\ PlanChainsGiven = <<"near", "ethereum">>
  /\ PlanAmountsGiven = <<"", "250", "250">>
  /\ resp.body.executionPlan.trades[1].amount = "1000"
  /\ resp.body.executionPlan.trades[2].amount = "250"
  /\ resp.body.transactionPayloads[1].payload.deposit = "1000"
  /\ resp.body.transactionPayloads[2].payload.value = "250"

----------------------------------------------------------------------------
(* Properties of price: spread, supported tokens, the Binance fetch *)

----------------------------------------------------------------------------
(* Properties of analyze: the range of the score *)

QuotedTokens == {"BTC", "ETH", "SOL"}

UnquotedTokens == {"MATIC", "AVAX", "BNB", "ADA", "DOT", "LINK", "UNI"}

EmptyQuoteSetError == "No supported chains found for this token"

\* C27 as stated: price succeeds only for BTC, ETH and SOL; for each of the
\* seven other supported tokens the request performs the upstream fetch and
\* ends with the client-input error for an empty quote set, or with 503 when
\* the fetch fails.
C27_OnlyQuotedTokensSucceed ==
  /\ PriceSucceeded => RequestedToken \in QuotedTokens
  /\ (PriceDone /\ RequestedToken \in UnquotedTokens) =>
       /\ Len(fetches) = 1
       /\ \/ fetches[1].result # "ok" /\ resp.status = 503
          \/ /\ fetches[1].result = "ok"
             /\ resp.status = 400
             /\ resp.body.error = EmptyQuoteSetError

\* C27 amended: price succeeds only for BTC, ETH and SOL; for each of the
\* seven other supported tokens the request performs the upstream fetch (and
\* no Binance fetch) and ends with 503 when the fetch fails, with the
\* client-input error for missing price data when the body has no entry for
\* the token, and with the client-input error for an empty quote set
\* otherwise.
C27_UnquotedTokensNeverSucceed ==
  /\ PriceSucceeded => RequestedToken \in QuotedTokens
  /\ (args.op = "price" /\ RequestedToken \in UnquotedTokens) =>
       /\ pc \in {"fetch", "done"}
       /\ Len(fetches) = 1
       /\ pc = "done" =>
            \/ fetches[1].result # "ok" /\ resp.status = 503
            \/ /\ fetches[1].result = "ok"
               /\ resp.status = 400
               /\ resp.body.error =
                    IF upstream.tokenData.tag = "object"
                    THEN EmptyQuoteSetError
                    ELSE "Price data not available"

\* price(LINK) got its price data and ended with the empty-quote-set error.
C27_Witness ==
  /\ PriceDone
  /\ RequestedToken = "LINK"
  /\ fetches = <<[to |-> "coingecko", result |-> "ok"]>>
  /\ upstream.tokenData.tag = "object"
  /\ resp.status = 400
  /\ resp.body.error = EmptyQuoteSetError

\* price(MATIC) got a body without an entry for the token.
C27_WitnessNoEntry ==
  /\ PriceDone
  /\ RequestedToken = "MATIC"
  /\ fetches = <<[to |-> "coingecko", result |-> "ok"]>>
  /\ upstream.tokenData.tag # "object"
  /\ resp.status = 400

\* C28: an analyze or price request whose token is outside the mapping issues
\* no fetch at all and ends with 400, never 503; buildStrategy and plan issue
\* no fetch on any input.
C28_ValidationBeforeFetch ==
  /\ (args.op \in {"analyze", "price"} /\ InvocationToken \notin MappedTokens) =>
       /\ fetches = <<>>
       /\ pc = "done"
       /\ resp.status = 400
  /\ args.op \in {"buildStrategy", "plan"} =>
       /\ fetches = <<>>
       /\ pc = "done"

\* price(doge) was refused with 400 and nothing was fetched.
C28_Witness ==
  /\ pc = "done" /\ args.op = "price"
  /\ InvocationToken = "DOGE"
  /\ fetches = <<>>
  /\ resp.status = 400
  /\ "fallback" \notin DOMAIN resp.body

\* buildStrategy answered with success and nothing was fetched.
C28_WitnessStrategy ==
  /\ pc = "done" /\ args.op = "buildStrategy"
  /\ fetches = <<>>
  /\ resp.status = 200

\* C29: price fetches from Binance only as its second fetch, after the
\* CoinGecko fetch succeeded with an entry for the token and the quote set is
\* non-empty; when the Binance fetch fails the request still ends with success,
\* with the quotes and arbitrage fields computed before that fetch and a null
\* binanceData.
C29_BinanceBestEffort ==
  /\ \A i \in DOMAIN fetches :
       fetches[i].to = "binance" =>
         /\ i = 2
         /\ fetches[1] = [to |-> "coingecko", result |-> "ok"]
         /\ upstream.tokenData.tag = "object"
         /\ RequestedChains \cap WrappedOn(RequestedToken) # {}
  /\ (Len(fetches) = 2 /\ fetches[2].result = "failed") =>
       /\ PriceSucceeded
       /\ resp.body.chains = PriceQuotes
       /\ DOMAIN resp.body.chains = RequestedChains \cap WrappedOn(RequestedToken)
       /\ resp.body.arbitrage = PriceResponse(Null).body.arbitrage
       /\ resp.body.marketData.binanceData = Null

\* price(SOL) over ethereum ended with success, one quote and a null
\* binanceData after its Binance fetch failed.
C29_Witness ==
  /\ PriceSucceeded
  /\ RequestedToken = "SOL"
  /\ fetches[2] = [to |-> "binance", result |-> "failed"]
  /\ DOMAIN resp.body.chains = {"ethereum"}
  /\ resp.body.marketData.binanceData = Null

\* The Binance fetch is pending after the CoinGecko fetch succeeded.
C29_WitnessPending ==
  /\ pc = "binance"
  /\ fetches = <<[to |-> "coingecko", result |-> "ok"], [to |-> "binance", result |-> "pending"]>>

\* C30: when the upstream answers with a success status and a body that does
\* not parse, scan ends with 500 and analyze and price end with 503.
C30_UnparseableBody ==
  (pc = "done" /\ fetches # <<>> /\ fetches[1].result = "invalid_body") =>
    /\ args.op \in {"scan", "analyze", "price"}
    /\ args.op = "scan" => resp.status = 500
    /\ args.op \in {"analyze", "price"} => resp.status = 503

\* analyze ended with 503 over a body that did not parse.
C30_Witness ==
  /\ pc = "done" /\ args.op = "analyze"
  /\ fetches = <<[to |-> "coingecko", result |-> "invalid_body"]>>
  /\ resp.status = 503

\* scan ended with 500 over a body that did not parse.
C30_WitnessScan ==
  /\ pc = "done" /\ args.op = "scan"
  /\ fetches = <<[to |-> "coingecko", result |-> "invalid_body"]>>
  /\ resp.status = 500

\* price ended with 503 over a body that did not parse.
C30_WitnessPrice ==
  /\ pc = "done" /\ args.op = "price"
  /\ fetches = <<[to |-> "coingecko", result |-> "invalid_body"]>>
  /\ resp.status = 503

====
